---- MODULE Spec2Model ----
(***************************************************************************)
(* Five-stage query pipeline of the RAG system: classification, source     *)
(* selection, retrieval (local KB, web search, domain API), reranking and  *)
(* response synthesis.  Collaborators (language model, web search, the     *)
(* finance / weather upstreams, the vector index) are nondeterministic     *)
(* inputs of the step that calls them.                                     *)
(*                                                                         *)
(* Scores are fixed-point numbers in thousandths (0.3 is 300).             *)
(* A JSON value that a reply carries is a record [t, v]: t is its type and *)
(* v the sequence of its elements; an element is [k, s] with k "str" for a *)
(* string and "num" for anything that is not a string.                     *)
(***************************************************************************)
EXTENDS Integers, Sequences, FiniteSets, TLC

\* ------------------------------------------------------------------ bounds
MaxKB == 1        \* candidates the vector index returns at most
MaxWeb == 1       \* organic results the search collaborator returns at most

\* --------------------------------------------------------------- constants
INTENT_ANALYTICAL == "analytical"
INTENT_FACTUAL == "factual"
INTENT_CONVERSATIONAL == "conversational"
INTENT_TRANSACTIONAL == "transactional"
DOMAIN_WEATHER == "weather"
DOMAIN_TRANSPORTATION == "transportation"
DOMAIN_FINANCE == "finance"
DOMAIN_GENERAL == "general"
VALID_INTENTS == {INTENT_ANALYTICAL, INTENT_FACTUAL, INTENT_CONVERSATIONAL, INTENT_TRANSACTIONAL}
VALID_DOMAINS == {DOMAIN_WEATHER, DOMAIN_TRANSPORTATION, DOMAIN_FINANCE, DOMAIN_GENERAL}
SOURCE_LOCAL_KB == "local_kb"
SOURCE_DOMAIN_API == "domain_api"
SOURCE_WEB_SEARCH == "web_search"
RESULT_SOURCE_LOCAL_KB == "local_kb"
RESULT_SOURCE_WEB == "web"
RESULT_SOURCE_DOMAIN_API == "domain_api"
ENTITY_KEY_LOCATIONS == "locations"
ENTITY_KEY_ORGANIZATIONS == "organizations"
ENTITY_KEY_STOCK_SYMBOLS == "stock_symbols"
ENTITY_KEY_DATES == "dates"
ENTITY_KEY_PRODUCTS == "products"
ENTITY_KEY_GENERAL == "general"
\* the three fence characters are written ~~~ here
MARKDOWN_JSON_START == "~~~json"
MARKDOWN_CODE_START == "~~~"
ERROR_PIPELINE_PROCESSING == "I apologize, but I encountered an error processing your query"
LOG_RESPONSE_ERROR == "I apologize, but I encountered an error generating a response."
LOG_RESPONSE_FALLBACK == "I couldn't generate a response at this time."

\* the six keys classify_with_llm fills in, in the order of its loop
EntityKeys == <<ENTITY_KEY_LOCATIONS, ENTITY_KEY_ORGANIZATIONS, ENTITY_KEY_STOCK_SYMBOLS,
                ENTITY_KEY_DATES, ENTITY_KEY_PRODUCTS, ENTITY_KEY_GENERAL>>

SixKeys == {EntityKeys[i] : i \in 1..Len(EntityKeys)}

\* --------------------------------------------------------------- JSON values
Absent == "<absent>"

S(s) == [k |-> "str", s |-> s]

N(s) == [k |-> "num", s |-> s]

JList(v) == [t |-> "list", v |-> v]

JNull == [t |-> "null", v |-> <<>>]

JStr(s) == [t |-> "str", v |-> <<S(s)>>]

EmptyMap == [key \in {} |-> JNull]

\* the entities member of a reply: kind "absent" when the key is missing,
\* "map" with the map in m, or a non-map JSON value in j
EntAbsent == [kind |-> "absent", m |-> EmptyMap, j |-> JNull]

EntMap(m) == [kind |-> "map", m |-> m, j |-> JNull]

EntNonMap(j) == [kind |-> "nonmap", m |-> EmptyMap, j |-> j]

\* -------------------------------------------------------- user context
DefaultContext == [location |-> "Hong Kong", country |-> "Hong Kong", timezone |-> "Asia/Hong_Kong"]

LocatedContext == [location |-> "Tokyo", country |-> "Japan", timezone |-> "Asia/Tokyo"]

\* get_user_context: the IP lookup either succeeds and overrides the default
\* location, or fails in any way and leaves the default
get_user_context(lookupOk) == IF lookupOk THEN LocatedContext ELSE DefaultContext

\* ------------------------------------------------- language model replies
\* What HKGAIClient.chat gives back for one call:
\*   "error"   {"error": ...}: transport or HTTP error, caught in chat
\*   "raise"   the body is not JSON: response.json() raises out of chat
\*   "content" {"content": c, ...}; c is empty when the model sent nothing
Chat(kind, content) == [kind |-> kind, content |-> content]

\* The text of a classification reply: an optional markdown fence around a
\* body.  body.shape is "garbage" (not JSON), "list", "num", "str" (a JSON
\* string that contains the words intent and domain) or "obj"; for an object
\* intent and domain are the values of those keys (Absent when missing),
\* needs_web is "absent", "true" or "false", entities as above.
Body(shape, intent, domain, needs_web, entities) ==
    [shape |-> shape, intent |-> intent, domain |-> domain,
     needs_web |-> needs_web, entities |-> entities]

NonObject(shape) == Body(shape, Absent, Absent, "absent", EntAbsent)

Obj(intent, domain, needs_web, entities) == Body("obj", intent, domain, needs_web, entities)

Fenced(prefix, body) == [prefix |-> prefix, body |-> body]

\* content.startswith(json fence) / startswith(code fence), then every
\* occurrence of the fence markers is removed: what is left in front of the
\* body ("" unless the fence carried another language tag)
StripFence(prefix) ==
    IF prefix = MARKDOWN_JSON_START THEN ""
    ELSE IF prefix = MARKDOWN_CODE_START THEN ""
    ELSE IF prefix = "~~~python" THEN "python"
    ELSE prefix

\* json.loads of the stripped text: TRUE when it parses
Parses(text) == StripFence(text.prefix) = "" /\ text.body.shape # "garbage"

create_empty_entities == [key \in SixKeys |-> JList(<<>>)]

\* NormalizeEntities without the loop that fills in the missing keys
NormalizeEntitiesNoFill(e) ==
    IF e.kind = "absent" THEN create_empty_entities
    ELSE IF e.kind = "map" THEN e.m
    ELSE [key \in {ENTITY_KEY_GENERAL} |-> IF e.j.t = "list" THEN e.j ELSE JList(<<>>)]

\* lines 137-153 of classify_with_llm: entities forced to a dict that has
\* the six keys; keys and values the reply supplied are kept as they are
NormalizeEntities(e) ==
    LET start == IF e.kind = "absent" THEN create_empty_entities
                 ELSE IF e.kind = "map" THEN e.m
                 ELSE [key \in {ENTITY_KEY_GENERAL} |->
                          IF e.j.t = "list" THEN e.j ELSE JList(<<>>)]
    IN [key \in (DOMAIN start) \cup SixKeys |->
           IF key \in DOMAIN start THEN start[key] ELSE JList(<<>>)]

None == [none |-> TRUE, intent |-> Absent, domain |-> Absent, needs_web |-> FALSE,
         entities |-> EmptyMap]

\* classify_with_llm without the check of the domain value
classify_with_llm_any_domain(chat) ==
    IF chat.kind = "raise" THEN None
    ELSE IF chat.kind = "error" THEN None
    ELSE IF chat.content.body.shape = "empty" THEN None
    ELSE IF ~Parses(chat.content) THEN None
    ELSE LET r == chat.content.body IN
         IF r.shape # "obj" THEN None
         ELSE IF r.intent = Absent \/ r.domain = Absent THEN None
         ELSE IF r.intent \notin VALID_INTENTS THEN None
         ELSE [none |-> FALSE, intent |-> r.intent, domain |-> r.domain,
               needs_web |-> IF r.needs_web = "absent"
                             THEN r.domain \in {DOMAIN_WEATHER, DOMAIN_TRANSPORTATION, DOMAIN_FINANCE}
                             ELSE r.needs_web = "true",
               entities |-> NormalizeEntities(r.entities)]

\* classify_with_llm: None on every failure, else the validated result
classify_with_llm(chat) ==
    IF chat.kind = "raise" THEN None              \* except Exception
    ELSE IF chat.kind = "error" THEN None
    ELSE IF chat.content.body.shape = "empty" THEN None   \* not content
    ELSE IF ~Parses(chat.content) THEN None       \* except json.JSONDecodeError
    ELSE LET r == chat.content.body IN
         IF r.shape = "list" THEN None            \* "intent" not in [...]
         ELSE IF r.shape = "num" THEN None        \* TypeError, except Exception
         ELSE IF r.shape = "str" THEN None        \* result["intent"]: TypeError
         ELSE IF r.intent = Absent \/ r.domain = Absent THEN None
         ELSE IF r.intent \notin VALID_INTENTS THEN None
         ELSE IF r.domain \notin VALID_DOMAINS THEN None
         ELSE [none |-> FALSE, intent |-> r.intent, domain |-> r.domain,
               needs_web |-> IF r.needs_web = "absent"
                             THEN r.domain \in {DOMAIN_WEATHER, DOMAIN_TRANSPORTATION, DOMAIN_FINANCE}
                             ELSE r.needs_web = "true",
               entities |-> NormalizeEntities(r.entities)]

\* query_understanding: the default Understanding when classification gave
\* None, else its four fields, both with the user context
query_understanding(chat, user_context) ==
    LET llm_result == classify_with_llm(chat) IN
    IF llm_result.none
    THEN [intent |-> INTENT_FACTUAL, domain |-> DOMAIN_GENERAL, needs_web |-> TRUE,
          entities |-> create_empty_entities, user_context |-> user_context,
          query |-> Absent]
    ELSE [intent |-> llm_result.intent, domain |-> llm_result.domain,
          needs_web |-> llm_result.needs_web, entities |-> llm_result.entities,
          user_context |-> user_context, query |-> Absent]

\* ------------------------------------------------------ source selection
Insert0(seq, x) == <<x>> \o seq

InSeq(x, seq) == \E i \in 1..Len(seq) : seq[i] = x

RECURSIVE EnsureAll(_, _)
\* lines 90-93: every source that priority lacks is appended
EnsureAll(sources, priority) ==
    IF sources = <<>> THEN priority
    ELSE EnsureAll(Tail(sources),
                   IF InSeq(Head(sources), priority) THEN priority
                   ELSE Append(priority, Head(sources)))

\* source_selection that forgets the priority entry of a supplementary web
\* search and has no final loop
source_selection_no_supplement(u) ==
    LET isDomain == u.domain \in {DOMAIN_FINANCE, DOMAIN_WEATHER, DOMAIN_TRANSPORTATION}
        s1 == IF isDomain THEN <<SOURCE_DOMAIN_API>> ELSE <<>>
        s2 == IF u.needs_web THEN Append(s1, SOURCE_WEB_SEARCH) ELSE s1
        p2 == IF u.needs_web /\ u.domain = DOMAIN_GENERAL THEN Insert0(s1, SOURCE_WEB_SEARCH) ELSE s1
        s3 == Append(s2, SOURCE_LOCAL_KB)
        p3 == IF u.intent = INTENT_CONVERSATIONAL \/ (u.domain = DOMAIN_GENERAL /\ ~u.needs_web)
              THEN Insert0(p2, SOURCE_LOCAL_KB)
              ELSE Append(p2, SOURCE_LOCAL_KB)
    IN [sources |-> s3, domain_handler |-> IF isDomain THEN u.domain ELSE Absent, priority |-> p3]

\* source_selection that puts local_kb in front of priority whatever the
\* intent and the domain
source_selection_kb_first(u) ==
    LET isDomain == u.domain \in {DOMAIN_FINANCE, DOMAIN_WEATHER, DOMAIN_TRANSPORTATION}
        s1 == IF isDomain THEN <<SOURCE_DOMAIN_API>> ELSE <<>>
        s2 == IF u.needs_web THEN Append(s1, SOURCE_WEB_SEARCH) ELSE s1
        p2 == IF u.needs_web
              THEN IF u.domain = DOMAIN_GENERAL THEN Insert0(s1, SOURCE_WEB_SEARCH)
                   ELSE Append(s1, SOURCE_WEB_SEARCH)
              ELSE s1
    IN [sources |-> Append(s2, SOURCE_LOCAL_KB),
        domain_handler |-> IF isDomain THEN u.domain ELSE Absent,
        priority |-> Insert0(p2, SOURCE_LOCAL_KB)]

\* source_selection that puts local_kb at the end of priority whatever the
\* intent and the domain
source_selection_kb_last(u) ==
    LET isDomain == u.domain \in {DOMAIN_FINANCE, DOMAIN_WEATHER, DOMAIN_TRANSPORTATION}
        s1 == IF isDomain THEN <<SOURCE_DOMAIN_API>> ELSE <<>>
        s2 == IF u.needs_web THEN Append(s1, SOURCE_WEB_SEARCH) ELSE s1
        p2 == IF u.needs_web
              THEN IF u.domain = DOMAIN_GENERAL THEN Insert0(s1, SOURCE_WEB_SEARCH)
                   ELSE Append(s1, SOURCE_WEB_SEARCH)
              ELSE s1
    IN [sources |-> Append(s2, SOURCE_LOCAL_KB),
        domain_handler |-> IF isDomain THEN u.domain ELSE Absent,
        priority |-> Append(p2, SOURCE_LOCAL_KB)]

\* source_selection that asks the local KB only where it is the primary
\* source
source_selection_kb_when_primary(u) ==
    LET isDomain == u.domain \in {DOMAIN_FINANCE, DOMAIN_WEATHER, DOMAIN_TRANSPORTATION}
        s1 == IF isDomain THEN <<SOURCE_DOMAIN_API>> ELSE <<>>
        s2 == IF u.needs_web THEN Append(s1, SOURCE_WEB_SEARCH) ELSE s1
        p2 == IF u.needs_web
              THEN IF u.domain = DOMAIN_GENERAL THEN Insert0(s1, SOURCE_WEB_SEARCH)
                   ELSE Append(s1, SOURCE_WEB_SEARCH)
              ELSE s1
        primary == u.intent = INTENT_CONVERSATIONAL \/ (u.domain = DOMAIN_GENERAL /\ ~u.needs_web)
    IN [sources |-> IF primary THEN Append(s2, SOURCE_LOCAL_KB) ELSE s2,
        domain_handler |-> IF isDomain THEN u.domain ELSE Absent,
        priority |-> IF primary THEN Insert0(p2, SOURCE_LOCAL_KB) ELSE p2]

source_selection(u) ==
    LET isDomain == u.domain \in {DOMAIN_FINANCE, DOMAIN_WEATHER, DOMAIN_TRANSPORTATION}
        s1 == IF isDomain THEN <<SOURCE_DOMAIN_API>> ELSE <<>>
        p1 == IF isDomain THEN <<SOURCE_DOMAIN_API>> ELSE <<>>
        s2 == IF u.needs_web THEN Append(s1, SOURCE_WEB_SEARCH) ELSE s1
        p2 == IF u.needs_web
              THEN IF u.domain = DOMAIN_GENERAL THEN Insert0(p1, SOURCE_WEB_SEARCH)
                   ELSE Append(p1, SOURCE_WEB_SEARCH)
              ELSE p1
        s3 == Append(s2, SOURCE_LOCAL_KB)
        p3 == IF u.intent = INTENT_CONVERSATIONAL \/ (u.domain = DOMAIN_GENERAL /\ ~u.needs_web)
              THEN Insert0(p2, SOURCE_LOCAL_KB)
              ELSE Append(p2, SOURCE_LOCAL_KB)
    IN [sources |-> s3,
        domain_handler |-> IF isDomain THEN u.domain ELSE Absent,
        priority |-> EnsureAll(s3, p3)]

\* ----------------------------------------------------------- result values
DEFAULT_TOP_K_LOCAL_KB == 5
DEFAULT_MAX_WEB_RESULTS == 5
MIN_SIMILARITY_THRESHOLD == 300
DEFAULT_SCORE_WEB_RESULTS == 800
HKGAI_DIRECT_SCORE == 1000
NoRank == -1

Min(a, b) == IF a < b THEN a ELSE b

\* a domain API result: the dict {} is EmptyDict; error is the value of the
\* top-level "error" key, Absent when the dict has no such key; entries are
\* the per-city / per-symbol results, each with its own error or Absent
NoRoute == [start |-> Absent, end |-> Absent]

Payload(error, topic, entries, results, fallback) ==
    [empty |-> FALSE, error |-> error, topic |-> topic, entries |-> entries,
     results |-> results, fallback |-> fallback, route |-> NoRoute]

EmptyDict == [empty |-> TRUE, error |-> Absent, topic |-> "", entries |-> <<>>,
              results |-> <<>>, fallback |-> <<>>, route |-> NoRoute]

HasError(p) == p.error # Absent

ErrorPayload(text) == Payload(text, "", <<>>, <<>>, <<>>)

Entry(name, error) == [name |-> name, error |-> error]

\* the content of a result item: a text or a dict
Txt(s) == [dict |-> FALSE, text |-> s, payload |-> EmptyDict]

Dict(pl) == [dict |-> TRUE, text |-> "", payload |-> pl]

Item(content, source, score, rank) ==
    [content |-> content, source |-> source, score |-> score, rank |-> rank]

\* what a function gives its caller: a value, or an exception with its text
Return(v) == [raise |-> Absent, value |-> v]

Raise(text) == [raise |-> text, value |-> EmptyDict]

\* ------------------------------------------------------------- local KB
\* load_local_retriever: the cached handles when the cache is initialized,
\* else a load that succeeds only when all three files are there and readable
load_local_retriever(initialized, files) == initialized \/ files = "ok"

DocName(i) == IF i = 1 THEN "doc 1" ELSE IF i = 2 THEN "doc 2" ELSE "doc n"

RECURSIVE FilterCandidates(_, _)
\* lines 179-192: candidates below the threshold are skipped, the others
\* keep the position they had in the search result as their rank
FilterCandidates(scores, i) ==
    IF i > Len(scores) THEN <<>>
    ELSE IF scores[i] < MIN_SIMILARITY_THRESHOLD THEN FilterCandidates(scores, i + 1)
    ELSE <<Item(Txt(DocName(i)), RESULT_SOURCE_LOCAL_KB, scores[i], i)>>
         \o FilterCandidates(scores, i + 1)

\* retrieve_from_local_kb that takes every candidate of the index, not the
\* first top_k
retrieve_from_local_kb_all(loaded, search) ==
    IF ~loaded THEN <<>>
    ELSE IF search.exc THEN <<>>
    ELSE FilterCandidates(search.scores, 1)

\* retrieve_from_local_kb: search is "exc" when encode or search raises,
\* else the similarity scores of the top_k candidates
retrieve_from_local_kb(loaded, search) ==
    IF ~loaded THEN <<>>
    ELSE IF search.exc THEN <<>>
    ELSE FilterCandidates(SubSeq(search.scores, 1, Min(Len(search.scores), DEFAULT_TOP_K_LOCAL_KB)), 1)

\* get_hkgai_answer: the direct answer item, or {} (EmptyItem) on error,
\* exception or empty content
EmptyItem == Item(Txt(""), "", 0, NoRank)

get_hkgai_answer(chat) ==
    IF chat.kind = "content" /\ chat.content # ""
    THEN Item(Txt(chat.content), "hkgai_direct", HKGAI_DIRECT_SCORE, 0)
    ELSE EmptyItem

\* ------------------------------------------------------------ web search
\* _refine_search_query: the model's text, or the original query on error,
\* exception or empty content
refine_search_query(chat, original_query) ==
    IF chat.kind = "content" /\ chat.content # "" THEN chat.content ELSE original_query

SnippetName(i) == IF i = 1 THEN "snippet 1" ELSE IF i = 2 THEN "snippet 2" ELSE "snippet n"

\* serpapi_search: [] without a key, on a non-200 status, on an exception
\* and on an empty result page, else at most max_results results
serpapi_search(query, max_results, key, chat, upstream) ==
    IF ~key THEN <<>>
    ELSE LET refined_query == refine_search_query(chat, query) IN
         IF upstream.status # "ok" THEN <<>>
         ELSE [i \in 1..Min(upstream.n, max_results) |->
                  [snippet |-> SnippetName(i), original_query |-> query,
                   refined_query |-> refined_query]]

\* retrieve_from_web: the snippets as items with the fixed web score
retrieve_from_web(query, key, chat, upstream) ==
    LET found == serpapi_search(query, DEFAULT_MAX_WEB_RESULTS, key, chat, upstream) IN
    [i \in 1..Len(found) |->
        Item(Txt(found[i].snippet), RESULT_SOURCE_WEB, DEFAULT_SCORE_WEB_RESULTS, NoRank)]

\* ------------------------------------------------------------ domain APIs
\* entities.get(key, default)
Get(entities, key, default) == IF key \in DOMAIN entities THEN entities[key] ELSE default

\* the elements a for loop over the value visits: a string is visited
\* character by character
Elements(j) == IF j.t = "str" THEN <<S("c")>> ELSE j.v

HongKongNames == {"Hong Kong", "Central", "Tsim Sha Tsui", "Causeway Bay", "Mong Kok", "Wan Chai"}

RECURSIVE ExtractCities(_, _)
ExtractCities(elems, cities) ==
    IF elems = <<>> THEN Return(cities)
    ELSE IF Head(elems).k # "str" THEN Raise("argument of type 'int' is not iterable")
    ELSE IF Head(elems).s \in HongKongNames
         THEN ExtractCities(Tail(elems),
                            IF InSeq("Hong Kong", cities) THEN cities
                            ELSE Append(cities, "Hong Kong"))
    ELSE IF Len(Head(elems).s) > 2 THEN ExtractCities(Tail(elems), Append(cities, Head(elems).s))
    ELSE ExtractCities(Tail(elems), cities)

\* _extract_cities_from_locations; it is called outside any try
extract_cities_from_locations(locations) ==
    IF locations.t = "null" THEN Raise("'NoneType' object is not iterable")
    ELSE ExtractCities(Elements(locations), <<>>)

\* get_weather_data that gives up on the first city whose call fails
get_weather_data_all_or_nothing(entities, weatherKey, up) ==
    IF ~weatherKey THEN Return(ErrorPayload("Missing API key"))
    ELSE LET c == extract_cities_from_locations(Get(entities, ENTITY_KEY_LOCATIONS, JList(<<>>))) IN
         IF c.raise # Absent THEN Raise(c.raise)
         ELSE IF \E i \in 1..Len(c.value) : up[i] # "ok"
         THEN Return(ErrorPayload("Weather API failed"))
         ELSE Return(Payload(Absent, DOMAIN_WEATHER,
                  [i \in 1..Len(c.value) |-> Entry(c.value[i], Absent)], <<>>, <<>>))

\* get_weather_data: up[i] is what the upstream call for the i-th city does
get_weather_data(entities, weatherKey, up) ==
    IF ~weatherKey THEN Return(ErrorPayload("Missing API key"))
    ELSE LET c == extract_cities_from_locations(Get(entities, ENTITY_KEY_LOCATIONS, JList(<<>>))) IN
         IF c.raise # Absent THEN Raise(c.raise)
         ELSE Return(Payload(Absent, DOMAIN_WEATHER,
                  [i \in 1..Len(c.value) |->
                      Entry(c.value[i],
                            IF up[i] = "ok" THEN Absent
                            ELSE IF up[i] = "http" THEN "Weather API failed"
                            ELSE "connection error")],
                  <<>>, <<>>))

\* the body of the try block of get_finance_data: a payload, or the exception
\* that reaches its except clause
FinanceTry(entities, fx, coin, yf) ==
    LET currencies == Get(entities, "currencies", JList(<<>>))
        amount == Get(entities, "amount", JList(<<N("1")>>))
        coins == Get(entities, "coins", JList(<<>>))
        symbols == Get(entities, ENTITY_KEY_STOCK_SYMBOLS, JList(<<>>))
        crypto == IF coins.t = "null" \/ Len(Elements(coins)) = 0 THEN Return(EmptyDict)
                  ELSE IF Head(Elements(coins)).k # "str"
                  THEN Raise("'int' object has no attribute 'lower'")
                  ELSE IF coin = "ok" THEN Return(Payload(Absent, "finance", <<Entry(Head(Elements(coins)).s, Absent)>>, <<>>, <<>>))
                  ELSE Return(ErrorPayload("CRYPTO_API_FAILED"))
        stocks == IF symbols.t = "null" \/ Len(Elements(symbols)) = 0
                  THEN Return(ErrorPayload("No recognizable finance query detected"))
                  ELSE IF \E i \in 1..Len(Elements(symbols)) : Elements(symbols)[i].k # "str"
                  THEN Raise("'int' object has no attribute 'strip'")
                  ELSE Return(Payload(Absent, "finance",
                          [i \in 1..Len(Elements(symbols)) |->
                              Entry(Elements(symbols)[i].s,
                                    IF yf[i] = "ok" THEN Absent ELSE "Failed to fetch data: connection error")],
                          <<>>, <<>>))
        rest == IF crypto.raise # Absent \/ ~crypto.value.empty THEN crypto ELSE stocks
    IN
    IF currencies.t = "null" THEN Raise("object of type 'NoneType' has no len()")
    ELSE IF \E i \in 1..Min(2, Len(Elements(currencies))) : Elements(currencies)[i].k # "str"
    THEN Raise("'int' object has no attribute 'upper'")
    ELSE IF amount.t # "null" /\ Len(Elements(amount)) > 0 /\ Head(Elements(amount)).k = "str"
    THEN Raise("could not convert string to float")
    ELSE IF "fx" \in DOMAIN entities \/ Len(Elements(currencies)) >= 1
    THEN IF fx = "exc" THEN Raise("connection error")
         ELSE IF fx = "rate"
         THEN Return(Payload(Absent, "finance", <<Entry(IF Len(Elements(currencies)) >= 1 THEN Head(Elements(currencies)).s ELSE "HKD", Absent)>>, <<>>, <<>>))
         ELSE rest
    ELSE rest

\* get_finance_data: what the try block returns, or on any exception an
\* error payload that carries the results of a web search of its own
get_finance_data(entities, fx, coin, yf, serpKey, chat, upstream) ==
    LET t == FinanceTry(entities, fx, coin, yf) IN
    IF t.raise = Absent THEN t
    ELSE Return(Payload("Finance API failed: " \o t.raise, "", <<>>, <<>>,
                        serpapi_search("finance entities", DEFAULT_MAX_WEB_RESULTS, serpKey, chat, upstream)))

Strip(str) == IF str = " " THEN "" ELSE str

RECURSIVE StripAll(_)
\* [loc.strip() for loc in locations if loc.strip()], outside any try
StripAll(elems) ==
    IF elems = <<>> THEN Return(<<>>)
    ELSE IF Head(elems).k # "str" THEN Raise("'int' object has no attribute 'strip'")
    ELSE LET r == StripAll(Tail(elems)) IN
         IF r.raise # Absent THEN r
         ELSE IF Strip(Head(elems).s) = "" THEN r
         ELSE Return(<<Strip(Head(elems).s)>> \o r.value)

RouteQuery == "how do I get from Central to Mong Kok"

\* the "from X to Y" pattern of get_transportation_data
RouteMatch(query) ==
    IF query = RouteQuery THEN [start |-> "Central", end |-> "Mong Kok"] ELSE NoRoute

get_transportation_data(query, entities, serpKey, chat, upstream) ==
    LET locations == Get(entities, "locations", JList(<<>>))
        le == IF locations.t = "null" THEN Raise("'NoneType' object is not iterable")
              ELSE StripAll(Elements(locations))
    IN
    IF le.raise # Absent THEN Raise(le.raise)
    ELSE LET n == Len(le.value)
             r0 == IF n >= 2 THEN [start |-> le.value[1], end |-> le.value[n]]
                   ELSE IF n = 1 THEN [start |-> Absent, end |-> le.value[1]]
                   ELSE NoRoute
             route == IF (r0.start = Absent \/ r0.end = Absent) /\ RouteMatch(query) # NoRoute
                      THEN RouteMatch(query) ELSE r0
             search_query ==
                 IF route.start # Absent /\ route.end # Absent
                 THEN "how to get from " \o route.start \o " to " \o route.end \o " Hong Kong public transport MTR bus"
                 ELSE IF route.end # Absent
                 THEN "how to get to " \o route.end \o " Hong Kong public transport directions"
                 ELSE query \o " Hong Kong transport directions"
             web_results == serpapi_search(search_query, 5, serpKey, chat, upstream)
         IN
         IF web_results # <<>>
         THEN Return([Payload(Absent, "transportation", <<>>, web_results, <<>>) EXCEPT !.route = route])
         ELSE Return(ErrorPayload("No transportation results found"))

\* call_domain_api: dispatch on the handler; in is the record of what the
\* upstream services do during this call
call_domain_api(query, domain, u, cfg, in) ==
    IF domain = DOMAIN_FINANCE
    THEN get_finance_data(u.entities, in.fx, in.coin, in.up, cfg.serpKey, in.chat, in.serp)
    ELSE IF domain = DOMAIN_WEATHER
    THEN get_weather_data(u.entities, cfg.weatherKey, in.up)
    ELSE IF domain = DOMAIN_TRANSPORTATION
    THEN get_transportation_data(query, u.entities, cfg.serpKey, in.chat, in.serp)
    ELSE Return(ErrorPayload("No API handler for domain: " \o domain))

\* --------------------------------------------------------------- reranking
DEFAULT_SCORE_LOCAL_KB == 500
DEFAULT_SCORE_WEB == 700
DEFAULT_SCORE_DOMAIN_API == 900
BM25_WEIGHT_ORIGINAL == 7
BM25_WEIGHT_BM25 == 3
ML_AVAILABLE == TRUE
NoBM25 == -9999

Ranked(content, source, score, bm25_score) ==
    [content |-> content, source |-> source, score |-> score, bm25_score |-> bm25_score]

\* lines 83-108 of rerank_results: the three buckets in one list
Flatten(results) ==
    [i \in 1..Len(results.local_kb_results) |->
        Ranked(results.local_kb_results[i].content, RESULT_SOURCE_LOCAL_KB,
               results.local_kb_results[i].score, NoBM25)]
    \o [i \in 1..Len(results.web_results) |->
        Ranked(results.web_results[i].content, RESULT_SOURCE_WEB,
               results.web_results[i].score, NoBM25)]
    \o (IF ~results.domain_api_results.empty
        THEN <<Ranked(Dict(results.domain_api_results), RESULT_SOURCE_DOMAIN_API,
                      DEFAULT_SCORE_DOMAIN_API, NoBM25)>>
        ELSE <<>>)

RECURSIVE MaxOf(_)
MaxOf(seq) == IF Len(seq) = 1 THEN seq[1]
              ELSE LET m == MaxOf(Tail(seq)) IN IF seq[1] > m THEN seq[1] ELSE m

\* raw / max_score in thousandths
Normalize(raw, max_score) == (raw * 1000) \div max_score

\* a score that is not a number (None, a string): arithmetic on it raises
NoneScore == -8888

\* the BM25 scores when tokenizing, BM25Okapi or get_scores raised: there
\* are none
BM25Raised == <<>>

\* lines 57-60: the blended item
BlendItem(item, bm25_score) ==
    [item EXCEPT !.score = (BM25_WEIGHT_ORIGINAL * item.score
                            + BM25_WEIGHT_BM25 * bm25_score) \div 10,
                 !.bm25_score = bm25_score]

RECURSIVE BlendLoop(_, _, _, _)
\* lines 56-60 and 62-63: the items are changed in place one after the
\* other; the product with a score that is not a number raises, the except
\* clause ends the loop there, and the items before it stay as they are
BlendLoop(raw, max_score, results, i) ==
    IF i > Len(results) THEN results
    ELSE IF results[i].score = NoneScore THEN results
    ELSE BlendLoop(raw, max_score,
                   [results EXCEPT ![i] = BlendItem(results[i], Normalize(raw[i], max_score))],
                   i + 1)

\* apply_bm25_reranking: raw holds the BM25 score of every item; a failure
\* before the loop leaves the list as it was
apply_bm25_reranking(raw, all_results) ==
    IF raw = BM25Raised THEN all_results
    ELSE LET max_score == IF MaxOf(raw) > 0 THEN MaxOf(raw) ELSE 1 IN
         BlendLoop(raw, max_score, all_results, 1)

RECURSIVE InsertSortedFront(_, _)
\* InsertSorted that puts x in front of the items with its score
InsertSortedFront(sorted, x) ==
    IF sorted = <<>> THEN <<x>>
    ELSE IF Head(sorted).score > x.score THEN <<Head(sorted)>> \o InsertSortedFront(Tail(sorted), x)
    ELSE <<x>> \o sorted

RECURSIVE InsertSorted(_, _)
\* x goes behind every item whose score is at least its own
InsertSorted(sorted, x) ==
    IF sorted = <<>> THEN <<x>>
    ELSE IF Head(sorted).score >= x.score THEN <<Head(sorted)>> \o InsertSorted(Tail(sorted), x)
    ELSE <<x>> \o sorted

RECURSIVE SortDescending(_)
\* list.sort(key=score, reverse=True): stable
SortDescending(seq) ==
    IF seq = <<>> THEN <<>>
    ELSE InsertSorted(SortDescending(SubSeq(seq, 1, Len(seq) - 1)), seq[Len(seq)])

rerank_results(results, raw) ==
    LET all_results == Flatten(results) IN
    SortDescending(IF ML_AVAILABLE /\ Len(all_results) > 1
                   THEN apply_bm25_reranking(raw, all_results)
                   ELSE all_results)

\* the BM25 score vectors tried for a batch of n items: nothing matches,
\* the first or the last item matches best, or every score is negative (a query term that
\* occurs in more than half of the documents has a negative idf), or the
\* scoring raised (BM25Okapi divides by the number of distinct words, which
\* is zero when every text is empty)
BM25Batches(n) ==
    {[i \in 1..n |-> 0], [i \in 1..n |-> -1], BM25Raised}
    \cup {[i \in 1..n |-> IF i = j THEN 2 ELSE 1] : j \in {1, n}}

\* ---------------------------------------------------------------- synthesis
\* generate_response: the exception of chat is not caught here
generate_response(chat) ==
    IF chat.kind = "raise" THEN Raise("Expecting value: line 1 column 1 (char 0)")
    ELSE IF chat.kind = "error" THEN Return(LOG_RESPONSE_ERROR)
    ELSE Return(chat.content)

\* the context block of the prompt
DEFAULT_MAX_CONTEXT_RESULTS == 5
DEFAULT_MAX_SUPPORTING_WEB == 3
CONTENT_PREVIEW_LENGTH_MEDIUM == 200

\* a rendered content is shown whole (json.dumps), or as its first chars
\* characters
Whole == -1

\* content[:n]
Preview(text, n) == Min(Len(text), n)

Line(index, source, content, chars) ==
    [index |-> index, source |-> source, content |-> content, chars |-> chars]

\* kind "none" is the 'No specific context retrieved' sentence, "primary"
\* the block with the domain API payload in front, "top" the numbered blocks
Block(kind, primary, lines) == [kind |-> kind, primary |-> primary, lines |-> lines]

NoContext == Block("unbuilt", EmptyDict, <<>>)

RECURSIVE extract_domain_api_result(_)
\* _extract_domain_api_result: the content of the first domain_api item
\* whose content is a dict; None, which is as false as {}, is EmptyDict here
extract_domain_api_result(context) ==
    IF context = <<>> THEN EmptyDict
    ELSE IF Head(context).source = RESULT_SOURCE_DOMAIN_API /\ Head(context).content.dict
    THEN Head(context).content.payload
    ELSE extract_domain_api_result(Tail(context))

IsWeb(ctx) == ctx.source = RESULT_SOURCE_WEB

IsStr(line) == ~line.content.dict

\* _extract_web_results
extract_web_results(context, max_results) ==
    LET web == SelectSeq(context, IsWeb) IN SubSeq(web, 1, Min(Len(web), max_results))

\* _build_context_summary that shows every web item, and all of its text
build_context_summary_every_web(context, domain_api_result) ==
    IF context = <<>> THEN Block("none", EmptyDict, <<>>)
    ELSE IF ~domain_api_result.empty
    THEN LET web_results == SelectSeq(context, IsWeb) IN
         Block("primary", domain_api_result,
               SelectSeq([i \in 1..Len(web_results) |->
                             Line(i, web_results[i].source, web_results[i].content,
                                  Len(web_results[i].content.text))],
                         IsStr))
    ELSE Block("top", EmptyDict,
               [i \in 1..Min(Len(context), DEFAULT_MAX_CONTEXT_RESULTS) |->
                   Line(i, context[i].source, context[i].content, Whole)])

\* _build_context_summary that numbers the top items whether or not there
\* is a domain API payload
build_context_summary_top_only(context, domain_api_result) ==
    IF context = <<>> THEN Block("none", EmptyDict, <<>>)
    ELSE Block("top", EmptyDict,
               [i \in 1..Min(Len(context), DEFAULT_MAX_CONTEXT_RESULTS) |->
                   Line(i, context[i].source, context[i].content, Whole)])

\* _build_context_summary: with a domain API payload, the payload and the
\* first web items whose content is a string, cut to the preview length;
\* without one, the first items of the list, numbered, with their source
build_context_summary(context, domain_api_result) ==
    IF context = <<>> THEN Block("none", EmptyDict, <<>>)
    ELSE IF ~domain_api_result.empty
    THEN LET web_results == extract_web_results(context, DEFAULT_MAX_SUPPORTING_WEB) IN
         Block("primary", domain_api_result,
               SelectSeq([i \in 1..Len(web_results) |->
                             Line(i, web_results[i].source, web_results[i].content,
                                  Preview(web_results[i].content.text,
                                          CONTENT_PREVIEW_LENGTH_MEDIUM))],
                         IsStr))
    ELSE Block("top", EmptyDict,
               [i \in 1..Min(Len(context), DEFAULT_MAX_CONTEXT_RESULTS) |->
                   Line(i, context[i].source, context[i].content, Whole)])

\* ------------------------------------------------------------------ inputs
PlainQuery == "what is the tallest building"

Queries == {PlainQuery, RouteQuery}

TextChats == {Chat("error", ""), Chat("raise", ""), Chat("content", ""), Chat("content", "model text")}

\* the entities a reply may carry: missing, not a map, or a map; the maps
\* tried with a domain are the ones its handler reads
EntityReplies(domain) ==
    {EntAbsent, EntMap(EmptyMap)}
    \cup (IF domain \in {DOMAIN_WEATHER, DOMAIN_TRANSPORTATION}
          THEN {EntMap([locations |-> JList(<<S("Tokyo")>>)]),
                EntMap([locations |-> JList(<<S("Paris"), S("Central")>>)]),
                EntMap([locations |-> JList(<<N("5")>>)]),
                EntMap([locations |-> JNull])}
          ELSE IF domain = DOMAIN_FINANCE
          THEN {EntMap([stock_symbols |-> JList(<<S("AAPL")>>)]),
                EntMap([stock_symbols |-> JList(<<N("5")>>)]),
                EntMap([currencies |-> JList(<<S("USD"), S("HKD")>>),
                        amount |-> JList(<<N("100")>>)]),
                EntMap([coins |-> JList(<<S("bitcoin")>>)])}
          ELSE {EntNonMap(JNull), EntNonMap(JList(<<S("misc")>>)), EntNonMap(JStr("misc"))})

Fences == {"", MARKDOWN_JSON_START, MARKDOWN_CODE_START, "~~~python"}

ObjectBodies ==
    UNION {{Obj(i, d, w, e) : i \in VALID_INTENTS \cup {Absent, "greeting"},
                              w \in {"absent", "true", "false"},
                              e \in EntityReplies(d)} :
           d \in VALID_DOMAINS \cup {Absent, "sports"}}

Bodies == ObjectBodies \cup {NonObject("garbage"), NonObject("list"), NonObject("num"), NonObject("str")}

NoText == Fenced("", NonObject("empty"))

\* every outcome of the classification call
ClassificationChats ==
    {Chat("error", NoText), Chat("raise", NoText), Chat("content", NoText)}
    \cup {Chat("content", Fenced(f, b)) : f \in Fences, b \in Bodies}

\* a search of the index: it raises, or returns the similarity scores of
\* at most MaxKB candidates, best first
KBScores == {250, 300, 800}

ScoreLists == UNION {[1..n -> KBScores] : n \in 0..MaxKB}

KBSearches ==
    {[exc |-> TRUE, scores |-> <<>>]}
    \cup {[exc |-> FALSE, scores |-> sc] : sc \in
             {l \in ScoreLists : \A i \in 1..(Len(l) - 1) : l[i] >= l[i + 1]}}

KBFiles == {"absent", "corrupt", "ok"}

SerpOutcomes ==
    {[status |-> "ok", n |-> k] : k \in 0..MaxWeb}
    \cup {[status |-> "http", n |-> 0], [status |-> "exc", n |-> 0]}

RefineChats == {Chat("error", ""), Chat("content", "refined query")}

\* what the upstream services do during one call of a domain handler: the
\* exchange-rate call, the coin price call, the call for each city or
\* symbol, and the refinement and search calls of serpapi_search
MaxEntries == 2

DomainInputs(handler, entities) ==
    [fx : IF handler = DOMAIN_FINANCE /\ "currencies" \in DOMAIN entities
          THEN {"rate", "norate", "exc"} ELSE {"rate"},
     coin : IF handler = DOMAIN_FINANCE /\ "coins" \in DOMAIN entities
            THEN {"ok", "fail"} ELSE {"ok"},
     up : IF handler = DOMAIN_TRANSPORTATION THEN {[i \in 1..MaxEntries |-> "ok"]}
          ELSE [1..MaxEntries -> {"ok", "http", "exc"}],
     chat : IF handler = DOMAIN_WEATHER THEN {Chat("error", "")} ELSE RefineChats,
     serp : IF handler = DOMAIN_WEATHER THEN {[status |-> "exc", n |-> 0]} ELSE SerpOutcomes]

\* --------------------------------------------------------------- profiler
\* the operations wrapped by timed_operation
Operations == {"query_understanding", "source_selection", "retrieve_from_local_kb",
               "get_hkgai_answer", "retrieve_from_web", "call_domain_api",
               "rerank_results", "generate_response"}

\* PerformanceMonitor.__init__ and reset: no timings, no counts
EmptyMonitor == [op \in Operations |-> 0]

\* record_timing: one more duration in timings[operation], counts[operation]
\* one higher; track_performance calls it in a finally clause
record_timing(m, operation) == [m EXCEPT ![operation] = @ + 1]

\* ------------------------------------------------------------------- state
VARIABLES
    cfg,            \* the API keys read at import: serpKey, weatherKey
    cache,          \* _local_retriever_cache["initialized"]
    pc,             \* where run_search_pipeline / retrieve_information is
    query,          \* the argument of run_search_pipeline
    reply,          \* classification: what chat returned (local to that stage)
    user_context,   \* classification: what get_user_context returned
    understanding,
    sources,        \* the SourceSelection
    kb_results,     \* retrieve_information's local list
    kbAssigned,     \* whether kb_results has been assigned
    results,        \* the three buckets
    status,         \* per backend: "idle", "running" or "done"
    calls,          \* calls made so far in this query, per callee
    ranked_results,
    synth,          \* synthesis: what chat returned
    raised,         \* text of the exception in flight or caught, or Absent
    response,       \* what run_search_pipeline returned, NoResponse before
    context_summary, \* synthesis: the context block of the prompt
    monitor,        \* the PerformanceMonitor singleton: recordings per operation
    args,           \* the arguments of a function that is called on its own
    requests,       \* the /send_message requests the server is handling
    disk,           \* whether the index, metadata and model files are on disk
    loader          \* how often the files were probed and the cache written

vars == <<cfg, cache, pc, query, reply, user_context, understanding, sources, kb_results, kbAssigned,
          results, status, calls, ranked_results, synth, raised, response, monitor, args,
          requests, disk, loader, context_summary>>

Backends == {SOURCE_LOCAL_KB, SOURCE_WEB_SEARCH, SOURCE_DOMAIN_API, "fallback"}

NoReply == Chat("none", NoText)

NoChat == Chat("none", "")

NoUnderstanding == [intent |-> Absent, domain |-> Absent, needs_web |-> FALSE,
                    entities |-> EmptyMap, user_context |-> DefaultContext, query |-> Absent]

NoSources == [sources |-> <<>>, domain_handler |-> Absent, priority |-> <<>>]

EmptyResults == [local_kb_results |-> <<>>, web_results |-> <<>>, domain_api_results |-> EmptyDict]

NoCalls == [kb |-> 0, direct |-> 0, web |-> 0, domain |-> 0, fallback |-> 0]

NoResponse == [returned |-> FALSE, text |-> ""]

NoArgs == [fn |-> "none"]

NoRequests == <<>>

NoLoads == [probes |-> 0, failed |-> 0, writes |-> 0]

Init ==
    /\ cfg \in [serpKey : BOOLEAN, weatherKey : BOOLEAN]
    /\ cache = FALSE
    /\ pc = "start"
    /\ query \in Queries
    /\ reply = NoReply
    /\ user_context = DefaultContext
    /\ understanding = NoUnderstanding
    /\ sources = NoSources
    /\ kb_results = <<>>
    /\ kbAssigned = FALSE
    /\ results = EmptyResults
    /\ status = [b \in Backends |-> "idle"]
    /\ calls = NoCalls
    /\ ranked_results = <<>>
    /\ synth = NoChat
    /\ raised = Absent
    /\ response = NoResponse
    /\ monitor = EmptyMonitor
    /\ args = NoArgs
    /\ requests = NoRequests
    /\ disk = "ok"
    /\ loader = NoLoads
    /\ context_summary = NoContext

Selected(src) == InSeq(src, sources.sources)

\* ---------------------------------------------------------------- pipeline
\* pipeline.py 45: query_understanding returns
Classify ==
    /\ pc = "start"
    /\ \E chat \in ClassificationChats, lookupOk \in BOOLEAN :
          /\ reply' = chat
          /\ user_context' = get_user_context(lookupOk)
          /\ understanding' = query_understanding(chat, get_user_context(lookupOk))
    /\ pc' = "classified"
    /\ monitor' = record_timing(monitor, "query_understanding")
    /\ UNCHANGED <<context_summary, args, requests, disk, loader, cfg, cache, query, sources, kb_results, kbAssigned, results, status,
                   calls, ranked_results, synth, raised, response>>

\* StoreQuery that keeps nothing of the Understanding but the user context
StoreQueryOnly ==
    /\ pc = "classified"
    /\ understanding' = [NoUnderstanding EXCEPT !.query = query,
                                                !.user_context = understanding.user_context]
    /\ pc' = "understood"
    /\ UNCHANGED <<context_summary, monitor, args, requests, disk, loader, cfg, cache, query, reply, user_context, sources,
                   kb_results, kbAssigned, results, status, calls, ranked_results, synth,
                   raised, response>>

\* pipeline.py 46: the pipeline stores the query in the Understanding
StoreQuery ==
    /\ pc = "classified"
    /\ understanding' = [understanding EXCEPT !.query = query]
    /\ pc' = "understood"
    /\ UNCHANGED <<context_summary, monitor, args, requests, disk, loader, cfg, cache, query, reply, user_context, sources,
                   kb_results, kbAssigned, results, status, calls, ranked_results, synth,
                   raised, response>>

\* pipeline.py 50-51
Select ==
    /\ pc = "understood"
    /\ sources' = source_selection(understanding)
    /\ reply' = NoReply
    /\ user_context' = DefaultContext
    /\ pc' = "selected"
    /\ monitor' = record_timing(monitor, "source_selection")
    /\ UNCHANGED <<context_summary, args, requests, disk, loader, cfg, cache, query, understanding, kb_results, kbAssigned, results,
                   status, calls, ranked_results, synth, raised, response>>

\* --------------------------------------------------- retrieve_information
AfterWeb ==
    IF Selected(SOURCE_DOMAIN_API) /\ sources.domain_handler # Absent THEN "domain" ELSE "summary"

AfterDirect == IF Selected(SOURCE_WEB_SEARCH) THEN "web" ELSE AfterWeb

Bump(callee) == [calls EXCEPT ![callee] = @ + 1]

\* KBStart as a fan-out: the web search is started together with the KB
KBStartFanOut ==
    /\ pc = "selected"
    /\ results' = EmptyResults
    /\ status' = [status EXCEPT ![SOURCE_LOCAL_KB] = "running",
                                ![SOURCE_WEB_SEARCH] = IF Selected(SOURCE_WEB_SEARCH)
                                                       THEN "running" ELSE @]
    /\ pc' = "kb"
    /\ UNCHANGED <<context_summary, monitor, args, requests, disk, loader, cfg, cache, query, reply, user_context, understanding, sources, kb_results,
                   kbAssigned, calls, ranked_results, synth, raised, response>>

\* retrieval.py 987-1011: the buckets start empty, then the local KB is asked
KBStart ==
    /\ pc = "selected"
    /\ results' = EmptyResults
    /\ IF Selected(SOURCE_LOCAL_KB)
       THEN /\ status' = [status EXCEPT ![SOURCE_LOCAL_KB] = "running"]
            /\ pc' = "kb"
       ELSE /\ status' = status
            /\ pc' = "direct"
    /\ UNCHANGED <<context_summary, monitor, args, requests, disk, loader, cfg, cache, query, reply, user_context, understanding, sources, kb_results, kbAssigned,
                   calls, ranked_results, synth, raised, response>>

\* retrieval.py 1012: retrieve_from_local_kb returns
KBReturn ==
    /\ pc = "kb"
    /\ \E files \in KBFiles, search \in KBSearches :
          LET loaded == load_local_retriever(cache, files) IN
          /\ cache' = loaded
          /\ kb_results' = retrieve_from_local_kb(loaded, search)
    /\ kbAssigned' = TRUE
    /\ status' = [status EXCEPT ![SOURCE_LOCAL_KB] = "done"]
    /\ calls' = Bump("kb")
    /\ pc' = "direct"
    /\ monitor' = record_timing(monitor, "retrieve_from_local_kb")
    /\ UNCHANGED <<context_summary, args, requests, disk, loader, cfg, query, reply, user_context, understanding, sources, results, ranked_results,
                   synth, raised, response>>

\* DirectAnswer that asks the model whether or not web search is among the
\* sources
DirectAnswerAlways ==
    /\ pc = "direct"
    /\ \E chat \in TextChats :
          LET hkgai_result == get_hkgai_answer(chat) IN
          IF kbAssigned
          THEN /\ kb_results' = IF hkgai_result # EmptyItem
                                THEN Insert0(kb_results, hkgai_result) ELSE kb_results
               /\ results' = [results EXCEPT !.local_kb_results = kb_results']
               /\ raised' = raised
               /\ pc' = AfterDirect
          ELSE /\ raised' = "cannot access local variable 'kb_results'"
               /\ pc' = "raised"
               /\ UNCHANGED <<kb_results, results>>
    /\ calls' = Bump("direct")
    /\ monitor' = record_timing(monitor, "get_hkgai_answer")
    /\ UNCHANGED <<context_summary, args, requests, disk, loader, cfg, cache, query, reply, user_context, understanding, sources, kbAssigned, status,
                   ranked_results, synth, response>>

\* retrieval.py 1014-1024: the direct answer of the model goes in front of
\* the KB results when web search is not among the sources; the list is
\* then stored in its bucket
DirectAnswer ==
    /\ pc = "direct"
    /\ \E chat \in (IF Selected(SOURCE_WEB_SEARCH) THEN {NoChat} ELSE TextChats) :
          LET hkgai_result == IF Selected(SOURCE_WEB_SEARCH) THEN EmptyItem
                              ELSE get_hkgai_answer(chat)
          IN
          IF kbAssigned
          THEN /\ kb_results' = IF hkgai_result # EmptyItem
                                THEN Insert0(kb_results, hkgai_result) ELSE kb_results
               /\ results' = [results EXCEPT !.local_kb_results = kb_results']
               /\ raised' = raised
               /\ pc' = AfterDirect
          ELSE /\ raised' = "cannot access local variable 'kb_results'"
               /\ pc' = "raised"
               /\ UNCHANGED <<kb_results, results>>
    /\ calls' = IF Selected(SOURCE_WEB_SEARCH) THEN calls ELSE Bump("direct")
    /\ monitor' = IF Selected(SOURCE_WEB_SEARCH) THEN monitor
                  ELSE record_timing(monitor, "get_hkgai_answer")
    /\ UNCHANGED <<context_summary, args, requests, disk, loader, cfg, cache, query, reply, user_context, understanding, sources, kbAssigned, status,
                   ranked_results, synth, response>>

\* retrieval.py 1027-1029: the web search is asked
WebStart ==
    /\ pc = "web"
    /\ status' = [status EXCEPT ![SOURCE_WEB_SEARCH] = "running"]
    /\ pc' = "web_run"
    /\ UNCHANGED <<context_summary, monitor, args, requests, disk, loader, cfg, cache, query, reply, user_context, understanding, sources, kb_results, kbAssigned,
                   results, calls, ranked_results, synth, raised, response>>

\* retrieval.py 1029-1031: retrieve_from_web returns
WebReturn ==
    /\ pc = "web_run"
    /\ \E chat \in RefineChats, upstream \in SerpOutcomes :
          results' = [results EXCEPT
                         !.web_results = retrieve_from_web(query, cfg.serpKey, chat, upstream)]
    /\ status' = [status EXCEPT ![SOURCE_WEB_SEARCH] = "done"]
    /\ calls' = Bump("web")
    /\ pc' = AfterWeb
    /\ monitor' = record_timing(monitor, "retrieve_from_web")
    /\ UNCHANGED <<context_summary, args, requests, disk, loader, cfg, cache, query, reply, user_context, understanding, sources, kb_results, kbAssigned,
                   ranked_results, synth, raised, response>>

\* retrieval.py 1034-1036: the domain API is asked
DomainStart ==
    /\ pc = "domain"
    /\ status' = [status EXCEPT ![SOURCE_DOMAIN_API] = "running"]
    /\ pc' = "domain_run"
    /\ UNCHANGED <<context_summary, monitor, args, requests, disk, loader, cfg, cache, query, reply, user_context, understanding, sources, kb_results, kbAssigned,
                   results, calls, ranked_results, synth, raised, response>>

\* DomainReturn that falls back on every error result, whether or not web
\* search is among the sources
DomainReturnAlwaysFallback ==
    /\ pc = "domain_run"
    /\ calls' = Bump("domain")
    /\ \E in \in DomainInputs(sources.domain_handler, understanding.entities) :
          LET api_result == call_domain_api(query, sources.domain_handler, understanding, cfg, in) IN
          IF api_result.raise # Absent
          THEN /\ raised' = api_result.raise
               /\ pc' = "raised"
               /\ status' = [status EXCEPT ![SOURCE_DOMAIN_API] = "failed"]
               /\ results' = results
          ELSE /\ results' = [results EXCEPT !.domain_api_results = api_result.value]
               /\ status' = [status EXCEPT ![SOURCE_DOMAIN_API] = "done"]
               /\ raised' = raised
               /\ pc' = IF HasError(api_result.value) THEN "fallback" ELSE "summary"
    /\ monitor' = record_timing(monitor, "call_domain_api")
    /\ UNCHANGED <<context_summary, args, requests, disk, loader, cfg, cache, query, reply, user_context, understanding, sources, kb_results,
                   kbAssigned, ranked_results, synth, response>>

\* retrieval.py 1036-1040: call_domain_api returns or raises; an error
\* result without web search among the sources leads to the fallback
DomainReturn ==
    /\ pc = "domain_run"
    /\ calls' = Bump("domain")
    /\ \E in \in DomainInputs(sources.domain_handler, understanding.entities) :
          LET api_result == call_domain_api(query, sources.domain_handler, understanding, cfg, in) IN
          IF api_result.raise # Absent
          THEN /\ raised' = api_result.raise
               /\ pc' = "raised"
               /\ status' = [status EXCEPT ![SOURCE_DOMAIN_API] = "failed"]
               /\ results' = results
          ELSE /\ results' = [results EXCEPT !.domain_api_results = api_result.value]
               /\ status' = [status EXCEPT ![SOURCE_DOMAIN_API] = "done"]
               /\ raised' = raised
               /\ pc' = IF HasError(api_result.value) /\ ~Selected(SOURCE_WEB_SEARCH)
                        THEN "fallback" ELSE "summary"
    /\ monitor' = record_timing(monitor, "call_domain_api")
    /\ UNCHANGED <<context_summary, args, requests, disk, loader, cfg, cache, query, reply, user_context, understanding, sources, kb_results, kbAssigned,
                   ranked_results, synth, response>>

\* retrieval.py 1041-1042: the fallback web search is asked
FallbackStart ==
    /\ pc = "fallback"
    /\ status' = [status EXCEPT !["fallback"] = "running"]
    /\ pc' = "fallback_run"
    /\ UNCHANGED <<context_summary, monitor, args, requests, disk, loader, cfg, cache, query, reply, user_context, understanding, sources, kb_results, kbAssigned,
                   results, calls, ranked_results, synth, raised, response>>

\* retrieval.py 1042-1044: its results replace the web bucket
FallbackReturn ==
    /\ pc = "fallback_run"
    /\ \E chat \in RefineChats, upstream \in SerpOutcomes :
          results' = [results EXCEPT
                         !.web_results = retrieve_from_web(query, cfg.serpKey, chat, upstream)]
    /\ status' = [status EXCEPT !["fallback"] = "done"]
    /\ calls' = Bump("fallback")
    /\ pc' = "summary"
    /\ monitor' = record_timing(monitor, "retrieve_from_web")
    /\ UNCHANGED <<context_summary, args, requests, disk, loader, cfg, cache, query, reply, user_context, understanding, sources, kb_results, kbAssigned,
                   ranked_results, synth, raised, response>>

\* retrieval.py 1046-1049: the buckets are returned to the pipeline
RetrievalReturn ==
    /\ pc = "summary"
    /\ pc' = "retrieved"
    /\ kb_results' = <<>>
    /\ kbAssigned' = FALSE
    /\ UNCHANGED <<context_summary, monitor, args, requests, disk, loader, cfg, cache, query, reply, user_context, understanding, sources, results, status, calls,
                   ranked_results, synth, raised, response>>

\* ------------------------------------------------- pipeline, later stages
\* pipeline.py 58-64
Rerank ==
    /\ pc = "retrieved"
    /\ \E raw \in (IF Len(Flatten(results)) > 1 THEN BM25Batches(Len(Flatten(results)))
                   ELSE {<<>>}) :
          ranked_results' = rerank_results(results, raw)
    /\ pc' = "ranked"
    /\ monitor' = record_timing(monitor, "rerank_results")
    /\ UNCHANGED <<context_summary, args, requests, disk, loader, cfg, cache, query, reply, user_context, understanding, sources, kb_results, kbAssigned,
                   results, status, calls, synth, raised, response>>

\* the locals of the try block once it has been left
Forget ==
    /\ understanding' = NoUnderstanding
    /\ sources' = NoSources
    /\ results' = EmptyResults
    /\ status' = [b \in Backends |-> "idle"]
    /\ calls' = NoCalls
    /\ ranked_results' = <<>>
    /\ kb_results' = <<>>
    /\ kbAssigned' = FALSE

\* response_generation.py 49-52: generate_response builds the context block
BuildContext ==
    /\ pc = "ranked"
    /\ context_summary' = build_context_summary(ranked_results,
                                                extract_domain_api_result(ranked_results))
    /\ pc' = "context"
    /\ UNCHANGED <<monitor, args, requests, disk, loader, cfg, cache, query, reply, user_context,
                   understanding, sources, kb_results, kbAssigned, results, status, calls,
                   ranked_results, synth, raised, response>>

\* pipeline.py 67-71: generate_response, and its result is returned
Generate ==
    /\ pc = "context"
    /\ context_summary' = NoContext
    /\ \E chat \in TextChats :
          LET r == generate_response(chat) IN
          /\ synth' = chat
          /\ IF r.raise # Absent
             THEN /\ raised' = r.raise
                  /\ pc' = "raised"
                  /\ response' = response
                  /\ Forget
             ELSE /\ response' = [returned |-> TRUE, text |-> r.value]
                  /\ pc' = "done"
                  /\ raised' = raised
                  /\ Forget
    /\ monitor' = record_timing(monitor, "generate_response")
    /\ UNCHANGED <<args, requests, disk, loader, cfg, cache, query, reply, user_context>>

\* Catch that swallows an exception of the retrieval and goes on with the
\* reranking
CatchResumes ==
    /\ pc = "raised"
    /\ pc' = "retrieved"
    /\ UNCHANGED <<context_summary, monitor, args, requests, disk, loader, cfg, cache, query, reply, user_context,
                   understanding, sources, kb_results, kbAssigned, results, status, calls,
                   ranked_results, synth, raised, response>>

\* Catch that returns the apology without the text of the error
CatchNoText ==
    /\ pc = "raised"
    /\ response' = [returned |-> TRUE, text |-> ERROR_PIPELINE_PROCESSING]
    /\ pc' = "done"
    /\ Forget
    /\ UNCHANGED <<context_summary, monitor, args, requests, disk, loader, cfg, cache, query, reply, user_context, synth, raised>>

\* pipeline.py 73-76: any exception of the five stages ends here
Catch ==
    /\ pc = "raised"
    /\ response' = [returned |-> TRUE, text |-> ERROR_PIPELINE_PROCESSING \o ": " \o raised]
    /\ pc' = "done"
    /\ Forget
    /\ UNCHANGED <<context_summary, monitor, args, requests, disk, loader, cfg, cache, query, reply, user_context, synth, raised>>

Next ==
    \/ Classify
    \/ StoreQuery
    \/ Select
    \/ KBStart
    \/ KBReturn
    \/ DirectAnswer
    \/ WebStart
    \/ WebReturn
    \/ DomainStart
    \/ DomainReturn
    \/ FallbackStart
    \/ FallbackReturn
    \/ RetrievalReturn
    \/ Rerank
    \/ BuildContext
    \/ Generate
    \/ Catch

Spec == Init /\ [][Next]_vars

\* ------------------------------------------- the functions on their own
\* retrieve_from_local_kb, rerank_results and get_weather_data called
\* directly, with arguments beyond what one pipeline run passes them
FnMaxCandidates == 6   \* vectors in the index
FnMaxKB == 2           \* items in the local KB bucket handed to rerank_results
FnMaxWeb == 2          \* items in the web bucket handed to rerank_results
FnMaxCities == 3       \* locations in the entities handed to get_weather_data

NonIncreasing(l) == \A i \in 1..(Len(l) - 1) : l[i] >= l[i + 1]

FnSearches ==
    {[exc |-> TRUE, scores |-> <<>>]}
    \cup {[exc |-> FALSE, scores |-> sc] : sc \in
             {l \in UNION {[1..n -> KBScores] : n \in 0..FnMaxCandidates} : NonIncreasing(l)}}

FnKBArgs ==
    {[fn |-> "retrieve_from_local_kb", loaded |-> l, search |-> sr] :
        l \in BOOLEAN, sr \in FnSearches}

\* the buckets retrieve_information can hand over
FnBuckets ==
    {[local_kb_results |-> retrieve_from_local_kb(TRUE, sr),
      web_results |-> retrieve_from_web(PlainQuery, TRUE, Chat("error", ""), [status |-> "ok", n |-> w]),
      domain_api_results |-> d] :
        sr \in {x \in FnSearches : Len(x.scores) <= FnMaxKB},
        w \in 0..FnMaxWeb,
        d \in {EmptyDict, ErrorPayload("Missing API key")}}

BM25Values == {-1, 0, 2}

FnRerankArgs ==
    UNION {{[fn |-> "rerank_results", results |-> b, raw |-> r] :
               r \in [1..Len(Flatten(b)) -> BM25Values] \cup {BM25Raised}} : b \in FnBuckets}

\* apply_bm25_reranking called with a list of its own: items whose score is
\* a number or not, and BM25 scores or the failure to compute them
FnMaxItems == 3        \* items in the list handed to apply_bm25_reranking

FnItems(n) ==
    {[i \in 1..n |-> Ranked(Txt(DocName(i)), RESULT_SOURCE_LOCAL_KB, sc[i], NoBM25)] :
        sc \in [1..n -> {DEFAULT_SCORE_LOCAL_KB, DEFAULT_SCORE_WEB_RESULTS, NoneScore}]}

FnBM25Args ==
    UNION {{[fn |-> "apply_bm25_reranking", items |-> l, raw |-> r] :
               l \in FnItems(n), r \in [1..n -> BM25Values] \cup {BM25Raised}} :
           n \in 2..FnMaxItems}

CityNames == {"Tokyo", "Paris", "Central", "HK"}

FnWeatherArgs ==
    {[fn |-> "get_weather_data",
      entities |-> [locations |-> JList([i \in 1..Len(l) |-> S(l[i])])],
      up |-> u] :
        l \in UNION {[1..n -> CityNames] : n \in 0..FnMaxCities},
        u \in [1..FnMaxCities -> {"ok", "http", "exc"}]}

\* generate_response's context block for a ranked list of its own, longer
\* than one pipeline run makes it
FnMaxContextWeb == 4   \* web items in the list handed to generate_response

Fifty == "a snippet of text that is fifty characters long.. "

\* a snippet of 210 characters
LongSnippet == Fifty \o Fifty \o Fifty \o Fifty \o "and more.."

FnContextBuckets ==
    {[local_kb_results |-> retrieve_from_local_kb(TRUE, sr),
      web_results |-> [i \in 1..w |->
                          Item(Txt(IF i = 2 THEN LongSnippet ELSE SnippetName(i)),
                               RESULT_SOURCE_WEB, DEFAULT_SCORE_WEB_RESULTS, NoRank)],
      domain_api_results |-> d] :
        sr \in {x \in FnSearches : Len(x.scores) <= FnMaxKB},
        w \in 0..FnMaxContextWeb,
        d \in {EmptyDict, ErrorPayload("Missing API key"),
               Payload(Absent, DOMAIN_WEATHER, <<Entry("Tokyo", Absent)>>, <<>>, <<>>)}}

FnContextArgs ==
    {[fn |-> "build_context_summary", context |-> rerank_results(b, BM25Raised)] :
        b \in FnContextBuckets}

FnInit ==
    /\ cfg = [serpKey |-> TRUE, weatherKey |-> TRUE]
    /\ cache = TRUE
    /\ pc = "fn"
    /\ query = PlainQuery
    /\ reply = NoReply
    /\ user_context = DefaultContext
    /\ understanding = NoUnderstanding
    /\ sources = NoSources
    /\ kb_results = <<>>
    /\ kbAssigned = FALSE
    /\ results = EmptyResults
    /\ status = [b \in Backends |-> "idle"]
    /\ calls = NoCalls
    /\ ranked_results = <<>>
    /\ synth = NoChat
    /\ raised = Absent
    /\ response = NoResponse
    /\ monitor = EmptyMonitor
    /\ args \in FnKBArgs \cup FnRerankArgs \cup FnWeatherArgs \cup FnBM25Args \cup FnContextArgs
    /\ requests = NoRequests
    /\ disk = "ok"
    /\ loader = NoLoads
    /\ context_summary = NoContext

\* retrieval.py 148-199
FnLocalKB ==
    /\ pc = "fn"
    /\ args.fn = "retrieve_from_local_kb"
    /\ kb_results' = retrieve_from_local_kb(args.loaded, args.search)
    /\ monitor' = record_timing(monitor, "retrieve_from_local_kb")
    /\ pc' = "fn_done"
    /\ UNCHANGED <<context_summary, args, requests, disk, loader, cfg, cache, query, reply, user_context,
                   understanding, sources, kbAssigned, results, status, calls,
                   ranked_results, synth, raised, response>>

\* reranking.py 68-118
FnRerank ==
    /\ pc = "fn"
    /\ args.fn = "rerank_results"
    /\ ranked_results' = rerank_results(args.results, args.raw)
    /\ monitor' = record_timing(monitor, "rerank_results")
    /\ pc' = "fn_done"
    /\ UNCHANGED <<context_summary, args, requests, disk, loader, cfg, cache, query, reply, user_context,
                   understanding, sources, kb_results, kbAssigned, results, status, calls,
                   synth, raised, response>>

\* retrieval.py 574-688
FnWeather ==
    /\ pc = "fn"
    /\ args.fn = "get_weather_data"
    /\ LET r == get_weather_data(args.entities, cfg.weatherKey, args.up) IN
       /\ results' = [results EXCEPT !.domain_api_results = r.value]
       /\ raised' = r.raise
    /\ pc' = "fn_done"
    /\ UNCHANGED <<context_summary, monitor, args, requests, disk, loader, cfg, cache, query, reply,
                   user_context, understanding, sources, kb_results, kbAssigned, status,
                   calls, ranked_results, synth, response>>

\* response_generation.py 49-52 and 84-151
FnContext ==
    /\ pc = "fn"
    /\ args.fn = "build_context_summary"
    /\ context_summary' = build_context_summary(args.context,
                                                extract_domain_api_result(args.context))
    /\ pc' = "fn_done"
    /\ UNCHANGED <<monitor, args, requests, disk, loader, cfg, cache, query, reply, user_context,
                   understanding, sources, kb_results, kbAssigned, results, status, calls,
                   ranked_results, synth, raised, response>>

\* reranking.py 22-65
FnBM25 ==
    /\ pc = "fn"
    /\ args.fn = "apply_bm25_reranking"
    /\ ranked_results' = apply_bm25_reranking(args.raw, args.items)
    /\ pc' = "fn_done"
    /\ UNCHANGED <<context_summary, monitor, args, requests, disk, loader, cfg, cache, query, reply, user_context,
                   understanding, sources, kb_results, kbAssigned, results, status, calls,
                   synth, raised, response>>

FnNext ==
    \/ FnLocalKB
    \/ FnRerank
    \/ FnWeather
    \/ FnBM25
    \/ FnContext

FnSpec == FnInit /\ [][FnNext]_vars

\* ------------------------------------------------------------- the server
\* The Flask process: create_app has run, and /send_message requests are
\* handled, several at a time.  Of a request only what touches the state of
\* the process is followed: the load of the retriever and the recordings of
\* the profiler; the data of the stages is as in the pipeline above.
MaxRequests == 2

RequestIds == 1..MaxRequests

NoRequest ==
    [pc |-> "idle", reply |-> NoReply, user_context |-> DefaultContext,
     understanding |-> NoUnderstanding, sources |-> NoSources, loaded |-> FALSE,
     own |-> EmptyMonitor, seen |-> EmptyMonitor]

\* the classification replies followed here: the call fails, or a weather
\* query that needs no web search
SrvChats ==
    {Chat("error", NoText),
     Chat("content", Fenced("", Obj(INTENT_FACTUAL, DOMAIN_WEATHER, "false",
                                    EntMap([locations |-> JList(<<S("Tokyo")>>)]))))}

\* __init__.py 19-31 and 33-60: the retriever is loaded at startup when its
\* files are there; when they are not the load fails, and setup_local_kb may
\* build the index afterwards
Startups ==
    {[disk |-> "ok", cache |-> TRUE], [disk |-> "ok", cache |-> FALSE],
     [disk |-> "absent", cache |-> FALSE], [disk |-> "corrupt", cache |-> FALSE]}

SrvInit ==
    /\ cfg = [serpKey |-> TRUE, weatherKey |-> TRUE]
    /\ \E st \in Startups : disk = st.disk /\ cache = st.cache
    /\ pc = "serving"
    /\ query = PlainQuery
    /\ reply = NoReply
    /\ user_context = DefaultContext
    /\ understanding = NoUnderstanding
    /\ sources = NoSources
    /\ kb_results = <<>>
    /\ kbAssigned = FALSE
    /\ results = EmptyResults
    /\ status = [b \in Backends |-> "idle"]
    /\ calls = NoCalls
    /\ ranked_results = <<>>
    /\ synth = NoChat
    /\ raised = Absent
    /\ response = NoResponse
    /\ monitor = EmptyMonitor
    /\ args = NoArgs
    /\ requests = [r \in RequestIds |-> NoRequest]
    /\ loader = NoLoads
    /\ context_summary = NoContext

\* the recording of one timed operation by request r
Recorded(r, operation) ==
    /\ monitor' = record_timing(monitor, operation)

Step(r, to) == [requests[r] EXCEPT !.pc = to]

\* routes.py 73-108: the request arrives and run_search_pipeline is called
Receive(r) ==
    /\ requests[r].pc = "idle"
    /\ requests' = [requests EXCEPT ![r] = Step(r, "understanding")]
    /\ UNCHANGED <<context_summary, monitor, args, disk, loader, cfg, cache, pc, query, reply, user_context,
                   understanding, sources, kb_results, kbAssigned, results, status, calls,
                   ranked_results, synth, raised, response>>

\* SrvUnderstand whose classifier answers with the default once the
\* process has classified a query before
SrvUnderstandOnce(r) ==
    /\ requests[r].pc = "understanding"
    /\ \E chat \in SrvChats, lookupOk \in BOOLEAN :
          requests' = [requests EXCEPT ![r] =
              [@ EXCEPT !.pc = "selection",
                        !.reply = chat,
                        !.user_context = get_user_context(lookupOk),
                        !.understanding =
                            [query_understanding(
                                 IF monitor["query_understanding"] > 0
                                 THEN Chat("error", NoText) ELSE chat,
                                 get_user_context(lookupOk))
                               EXCEPT !.query = query],
                        !.own = record_timing(@, "query_understanding")]]
    /\ Recorded(r, "query_understanding")
    /\ UNCHANGED <<context_summary, args, disk, loader, cfg, cache, pc, query, reply, user_context,
                   understanding, sources, kb_results, kbAssigned, results, status, calls,
                   ranked_results, synth, raised, response>>

\* pipeline.py 45-46: query_understanding returns
SrvUnderstand(r) ==
    /\ requests[r].pc = "understanding"
    /\ \E chat \in SrvChats, lookupOk \in BOOLEAN :
          requests' = [requests EXCEPT ![r] =
              [@ EXCEPT !.pc = "selection",
                        !.reply = chat,
                        !.user_context = get_user_context(lookupOk),
                        !.understanding =
                            [query_understanding(chat, get_user_context(lookupOk))
                               EXCEPT !.query = query],
                        !.own = record_timing(@, "query_understanding")]]
    /\ Recorded(r, "query_understanding")
    /\ UNCHANGED <<context_summary, args, disk, loader, cfg, cache, pc, query, reply, user_context,
                   understanding, sources, kb_results, kbAssigned, results, status, calls,
                   ranked_results, synth, raised, response>>

\* pipeline.py 50: source_selection returns; the locals of classification
\* are gone
SrvSelect(r) ==
    /\ requests[r].pc = "selection"
    /\ requests' = [requests EXCEPT ![r] =
          [@ EXCEPT !.pc = "kb_check",
                    !.reply = NoReply,
                    !.user_context = DefaultContext,
                    !.understanding = NoUnderstanding,
                    !.sources = source_selection(requests[r].understanding),
                    !.own = record_timing(@, "source_selection")]]
    /\ Recorded(r, "source_selection")
    /\ UNCHANGED <<context_summary, args, disk, loader, cfg, cache, pc, query, reply, user_context,
                   understanding, sources, kb_results, kbAssigned, results, status, calls,
                   ranked_results, synth, raised, response>>

\* SrvKBCheck that remembers a failed load and does not look at the files
\* again
SrvKBCheckOnce(r) ==
    /\ requests[r].pc = "kb_check"
    /\ IF cache
       THEN /\ requests' = [requests EXCEPT ![r] = [@ EXCEPT !.pc = "kb_return", !.loaded = TRUE]]
            /\ loader' = loader
       ELSE IF loader.failed > 0
       THEN /\ requests' = [requests EXCEPT ![r] = [@ EXCEPT !.pc = "kb_return", !.loaded = FALSE]]
            /\ loader' = loader
       ELSE IF disk = "absent"
       THEN /\ requests' = [requests EXCEPT ![r] = [@ EXCEPT !.pc = "kb_return", !.loaded = FALSE]]
            /\ loader' = [loader EXCEPT !.probes = @ + 1, !.failed = @ + 1]
       ELSE /\ requests' = [requests EXCEPT ![r] = Step(r, "kb_load")]
            /\ loader' = [loader EXCEPT !.probes = @ + 1]
    /\ UNCHANGED <<context_summary, monitor, args, disk, cfg, cache, pc, query, reply, user_context,
                   understanding, sources, kb_results, kbAssigned, results, status, calls,
                   ranked_results, synth, raised, response>>

\* classifiers.py 27-54: load_local_retriever hands out the cached handles,
\* or looks for the three files
SrvKBCheck(r) ==
    /\ requests[r].pc = "kb_check"
    /\ IF cache
       THEN /\ requests' = [requests EXCEPT ![r] = [@ EXCEPT !.pc = "kb_return", !.loaded = TRUE]]
            /\ loader' = loader
       ELSE IF disk = "absent"
       THEN /\ requests' = [requests EXCEPT ![r] = [@ EXCEPT !.pc = "kb_return", !.loaded = FALSE]]
            /\ loader' = [loader EXCEPT !.probes = @ + 1, !.failed = @ + 1]
       ELSE /\ requests' = [requests EXCEPT ![r] = Step(r, "kb_load")]
            /\ loader' = [loader EXCEPT !.probes = @ + 1]
    /\ UNCHANGED <<context_summary, monitor, args, disk, cfg, cache, pc, query, reply, user_context,
                   understanding, sources, kb_results, kbAssigned, results, status, calls,
                   ranked_results, synth, raised, response>>

\* classifiers.py 56-82: the files are read; the handles are cached when
\* that worked, and nothing is cached when it raised
SrvKBLoad(r) ==
    /\ requests[r].pc = "kb_load"
    /\ IF disk = "ok"
       THEN /\ cache' = TRUE
            /\ loader' = [loader EXCEPT !.writes = @ + 1]
            /\ requests' = [requests EXCEPT ![r] = [@ EXCEPT !.pc = "kb_return", !.loaded = TRUE]]
       ELSE /\ cache' = cache
            /\ loader' = [loader EXCEPT !.failed = @ + 1]
            /\ requests' = [requests EXCEPT ![r] = [@ EXCEPT !.pc = "kb_return", !.loaded = FALSE]]
    /\ UNCHANGED <<context_summary, monitor, args, disk, cfg, pc, query, reply, user_context,
                   understanding, sources, kb_results, kbAssigned, results, status, calls,
                   ranked_results, synth, raised, response>>

\* retrieval.py 161-199: retrieve_from_local_kb returns, [] without handles
SrvKBReturn(r) ==
    /\ requests[r].pc = "kb_return"
    /\ requests' = [requests EXCEPT ![r] =
          [@ EXCEPT !.pc = "retrieval", !.own = record_timing(@, "retrieve_from_local_kb")]]
    /\ Recorded(r, "retrieve_from_local_kb")
    /\ UNCHANGED <<context_summary, args, disk, loader, cfg, cache, pc, query, reply, user_context,
                   understanding, sources, kb_results, kbAssigned, results, status, calls,
                   ranked_results, synth, raised, response>>

\* retrieval.py 1014-1049: the other timed call of retrieve_information for
\* these sources: the direct answer without web search, else the web search
SrvRetrieve(r) ==
    /\ requests[r].pc = "retrieval"
    /\ LET operation == IF InSeq(SOURCE_WEB_SEARCH, requests[r].sources.sources)
                        THEN "retrieve_from_web" ELSE "get_hkgai_answer"
       IN /\ requests' = [requests EXCEPT ![r] =
                [@ EXCEPT !.pc = IF requests[r].sources.domain_handler # Absent
                                 THEN "domain" ELSE "rerank",
                          !.own = record_timing(@, operation)]]
          /\ Recorded(r, operation)
    /\ UNCHANGED <<context_summary, args, disk, loader, cfg, cache, pc, query, reply, user_context,
                   understanding, sources, kb_results, kbAssigned, results, status, calls,
                   ranked_results, synth, raised, response>>

\* retrieval.py 1034-1037: call_domain_api returns
SrvDomain(r) ==
    /\ requests[r].pc = "domain"
    /\ requests' = [requests EXCEPT ![r] =
          [@ EXCEPT !.pc = "rerank", !.own = record_timing(@, "call_domain_api")]]
    /\ Recorded(r, "call_domain_api")
    /\ UNCHANGED <<context_summary, args, disk, loader, cfg, cache, pc, query, reply, user_context,
                   understanding, sources, kb_results, kbAssigned, results, status, calls,
                   ranked_results, synth, raised, response>>

\* pipeline.py 63-71: rerank_results and generate_response return, and
\* with them run_search_pipeline
SrvAnswer(r) ==
    /\ requests[r].pc = "rerank"
    /\ requests' = [requests EXCEPT ![r] =
          [@ EXCEPT !.pc = "summary",
                    !.sources = NoSources,
                    !.loaded = FALSE,
                    !.own = record_timing(record_timing(@, "rerank_results"),
                                          "generate_response")]]
    /\ monitor' = record_timing(record_timing(monitor, "rerank_results"), "generate_response")
    /\ UNCHANGED <<context_summary, args, disk, loader, cfg, cache, pc, query, reply, user_context,
                   understanding, sources, kb_results, kbAssigned, results, status, calls,
                   ranked_results, synth, raised, response>>

\* routes.py 115: print_performance_summary shows what the monitor holds
\* and resets it
SrvPrintSummary(r) ==
    /\ requests[r].pc = "summary"
    /\ requests' = [requests EXCEPT ![r] = [@ EXCEPT !.pc = "done", !.seen = monitor]]
    /\ monitor' = EmptyMonitor
    /\ UNCHANGED <<context_summary, args, disk, loader, cfg, cache, pc, query, reply, user_context,
                   understanding, sources, kb_results, kbAssigned, results, status, calls,
                   ranked_results, synth, raised, response>>

SrvNext ==
    \/ \E r \in RequestIds : Receive(r)
    \/ \E r \in RequestIds : SrvUnderstand(r)
    \/ \E r \in RequestIds : SrvSelect(r)
    \/ \E r \in RequestIds : SrvKBCheck(r)
    \/ \E r \in RequestIds : SrvKBLoad(r)
    \/ \E r \in RequestIds : SrvKBReturn(r)
    \/ \E r \in RequestIds : SrvRetrieve(r)
    \/ \E r \in RequestIds : SrvDomain(r)
    \/ \E r \in RequestIds : SrvAnswer(r)
    \/ \E r \in RequestIds : SrvPrintSummary(r)

ServerSpec == SrvInit /\ [][SrvNext]_vars

\* ================================================================== claims
InRetrieval == pc \in {"kb", "direct", "web", "web_run", "domain", "domain_run",
                       "fallback", "fallback_run", "summary"}

RetrievalOver == pc \in {"summary", "retrieved", "ranked", "context"}

\* C1: run_search_pipeline never ends with an exception: once it is done it
\* has returned a string, and when a stage raised, that string is the
\* apology prefix, ": " and the text of the error.
C1_PipelineNeverRaises ==
    /\ pc = "done" => response.returned
    /\ (pc = "done" /\ raised # Absent)
          => response.text = ERROR_PIPELINE_PROCESSING \o ": " \o raised
    /\ (pc # "done") => ~response.returned

C1_Witness == pc = "done" /\ raised # Absent /\ response.returned

\* C2: the string run_search_pipeline returns is never empty.
C2_FinalAnswerNonEmpty == pc = "done" => response.text # ""

\* the replies C3 lists: an error, no content, text that is not JSON, an
\* object without intent or domain, or with a value outside the enum sets
C3_FailedReply ==
    \/ reply.kind \in {"error", "raise"}
    \/ /\ reply.kind = "content"
       /\ \/ reply.content.body.shape \in {"empty", "garbage"}
          \/ reply.content.prefix \notin {"", MARKDOWN_JSON_START, MARKDOWN_CODE_START}
          \/ /\ reply.content.body.shape = "obj"
             /\ \/ reply.content.body.intent \notin VALID_INTENTS
                \/ reply.content.body.domain \notin VALID_DOMAINS

C4_ExactlySixLists ==
    (pc = "understood")
       => /\ DOMAIN understanding.entities = SixKeys
          /\ \A key \in DOMAIN understanding.entities : understanding.entities[key].t = "list"

\* the entities map of a reply that passed validation, EmptyMap otherwise
C4_ReplyMap ==
    IF /\ reply.kind = "content"
       /\ Parses(reply.content)
       /\ reply.content.body.shape = "obj"
       /\ reply.content.body.intent \in VALID_INTENTS
       /\ reply.content.body.domain \in VALID_DOMAINS
       /\ reply.content.body.entities.kind = "map"
    THEN reply.content.body.entities.m
    ELSE EmptyMap

\* C4 amended: the entities of every Understanding have each of the six
\* keys; a key the reply's map did not supply holds a list, and the keys and
\* values the reply's map did supply are kept as they came, so the map has
\* exactly the six keys with list values only when the reply supplied no
\* other key and no other kind of value.
C4_SixKeysPresent ==
    (pc = "understood")
       => /\ SixKeys \subseteq DOMAIN understanding.entities
          /\ DOMAIN understanding.entities = SixKeys \cup DOMAIN C4_ReplyMap
          /\ \A key \in DOMAIN understanding.entities :
                IF key \in DOMAIN C4_ReplyMap
                THEN understanding.entities[key] = C4_ReplyMap[key]
                ELSE understanding.entities[key].t = "list"

C4_Witness ==
    /\ pc = "understood"
    /\ "currencies" \in DOMAIN understanding.entities
    /\ SixKeys \subseteq DOMAIN understanding.entities

Count(seq, x) == Cardinality({i \in 1..Len(seq) : seq[i] = x})

Elems(seq) == {seq[i] : i \in 1..Len(seq)}

\* C5: priority is a permutation of sources, and sources has no duplicates.
C5_PriorityIsPermutation ==
    /\ Len(sources.priority) = Len(sources.sources)
    /\ Elems(sources.priority) = Elems(sources.sources)
    /\ \A x \in Elems(sources.sources) :
          Count(sources.sources, x) = 1 /\ Count(sources.priority, x) = 1

C5_Witness ==
    /\ pc = "selected"
    /\ Len(sources.sources) = 3
    /\ sources.priority # sources.sources

RetrievalBackends == {SOURCE_LOCAL_KB, SOURCE_WEB_SEARCH, SOURCE_DOMAIN_API}

C7_BackendFailureIsolated ==
    /\ \A b \in Backends : status[b] # "failed"
    /\ InRetrieval => raised = Absent

\* C8: the fallback web search is made at most once, only after the domain
\* result has come back with an error and without web search among the
\* sources, and in exactly those runs; with web search among the sources
\* there is the one web search and no fallback.
C8_FallbackIffDomainError ==
    /\ calls.fallback <= 1
    /\ status["fallback"] # "idle"
          => /\ status[SOURCE_DOMAIN_API] = "done"
             /\ HasError(results.domain_api_results)
             /\ ~Selected(SOURCE_WEB_SEARCH)
    /\ RetrievalOver
          => (calls.fallback = 1
                 <=> /\ calls.domain = 1
                     /\ HasError(results.domain_api_results)
                     /\ ~Selected(SOURCE_WEB_SEARCH))
    /\ Selected(SOURCE_WEB_SEARCH) => calls.fallback = 0 /\ calls.web <= 1
    /\ ~Selected(SOURCE_WEB_SEARCH) => calls.web = 0
    /\ (RetrievalOver /\ calls.fallback = 0 /\ ~Selected(SOURCE_WEB_SEARCH))
          => results.web_results = <<>>

C8_Witness ==
    /\ pc = "retrieved"
    /\ calls.fallback = 1
    /\ results.web_results # <<>>

\* the domain API produced no data: an error result, or a result whose
\* every city or symbol failed
C9_NoDomainData ==
    \/ HasError(results.domain_api_results)
    \/ /\ results.domain_api_results.entries # <<>>
       /\ \A i \in 1..Len(results.domain_api_results.entries) :
             results.domain_api_results.entries[i].error # Absent

\* C9: when the domain API produced no data and web search was not among
\* the sources, the fallback web search has been made by the time
\* retrieve_information returns.
C9_FallbackOnDomainFailure ==
    (RetrievalOver /\ calls.domain = 1 /\ ~Selected(SOURCE_WEB_SEARCH) /\ C9_NoDomainData)
       => calls.fallback = 1

IsDirectAnswer(item) == item.rank = 0 /\ item.score = HKGAI_DIRECT_SCORE

\* C10: a returned RetrievalResult never has the direct answer in the local
\* KB bucket together with a non-empty web bucket.
C10_DirectAnswerSuppressed ==
    (pc = "retrieved")
       => ~(/\ \E i \in 1..Len(results.local_kb_results) :
                  IsDirectAnswer(results.local_kb_results[i])
            /\ results.web_results # <<>>)

FnReturned(fn) == pc = "fn_done" /\ args.fn = fn

\* the candidates the index hands back for top_k
C11_Candidates ==
    SubSeq(args.search.scores, 1, Min(Len(args.search.scores), DEFAULT_TOP_K_LOCAL_KB))

\* C11: every item retrieve_from_local_kb returns has a score of at least
\* 0.30, the items are exactly the top-k candidates that reach the
\* threshold, there are at most 5 of them, and a failed search or load
\* gives the empty list.
C11_ThresholdAndTopK ==
    FnReturned("retrieve_from_local_kb")
       => /\ \A i \in 1..Len(kb_results) : kb_results[i].score >= MIN_SIMILARITY_THRESHOLD
          /\ Len(kb_results) <= DEFAULT_TOP_K_LOCAL_KB
          /\ (args.loaded /\ ~args.search.exc)
                => Len(kb_results) = Cardinality({i \in 1..Len(C11_Candidates) :
                                                    C11_Candidates[i] >= MIN_SIMILARITY_THRESHOLD})
          /\ \A i \in 1..Len(kb_results) :
                /\ kb_results[i].rank \in 1..Len(C11_Candidates)
                /\ kb_results[i].score = C11_Candidates[kb_results[i].rank]
          /\ (args.search.exc \/ ~args.loaded) => kb_results = <<>>

C11_Witness ==
    /\ FnReturned("retrieve_from_local_kb")
    /\ Len(args.search.scores) > DEFAULT_TOP_K_LOCAL_KB
    /\ Len(kb_results) = 4
    /\ args.search.scores[DEFAULT_TOP_K_LOCAL_KB] < MIN_SIMILARITY_THRESHOLD

\* the flattened list of the call, and what apply_bm25_reranking makes of it
Flattened == Flatten(args.results)

Blended ==
    IF ML_AVAILABLE /\ Len(Flattened) > 1
    THEN apply_bm25_reranking(args.raw, Flattened)
    ELSE Flattened

\* C12: after the blended reranking of more than one item, every item has a
\* normalized BM25 score between 0 and 1, and its final score is 0.7 times
\* its original score plus 0.3 times the normalized BM25 score.
C12_NormalizedInUnitRange ==
    (FnReturned("rerank_results") /\ Len(Flattened) > 1 /\ args.raw # BM25Raised)
       => \A i \in 1..Len(ranked_results) :
             /\ ranked_results[i].bm25_score >= 0
             /\ ranked_results[i].bm25_score <= 1000
             /\ \E k \in 1..Len(Flattened) :
                   /\ ranked_results[i].content = Flattened[k].content
                   /\ ranked_results[i].source = Flattened[k].source
                   /\ ranked_results[i].score
                         = (BM25_WEIGHT_ORIGINAL * Flattened[k].score
                            + BM25_WEIGHT_BM25 * ranked_results[i].bm25_score) \div 10

\* where the k-th item of the list goes in a stable descending sort
SortedPosition(list, k) ==
    1 + Cardinality({j \in 1..Len(list) : list[j].score > list[k].score})
      + Cardinality({j \in 1..(k - 1) : list[j].score = list[k].score})

\* C13: rerank_results returns every item of the three buckets once, by
\* non-increasing final score, and items of equal final score in their
\* flattening order.
C13_StableDescendingSort ==
    FnReturned("rerank_results")
       => /\ Len(ranked_results)
                = Len(args.results.local_kb_results) + Len(args.results.web_results)
                  + (IF args.results.domain_api_results.empty THEN 0 ELSE 1)
          /\ Len(ranked_results) = Len(Blended)
          /\ \A i \in 1..(Len(ranked_results) - 1) :
                ranked_results[i].score >= ranked_results[i + 1].score
          /\ \A k \in 1..Len(Blended) : ranked_results[SortedPosition(Blended, k)] = Blended[k]

C13_Witness ==
    /\ FnReturned("rerank_results")
    /\ Len(ranked_results) >= 4
    /\ ranked_results[1].source = RESULT_SOURCE_DOMAIN_API
    /\ \E i \in 1..(Len(ranked_results) - 1) :
          /\ ranked_results[i].score = ranked_results[i + 1].score
          /\ ranked_results[i].source = RESULT_SOURCE_LOCAL_KB
          /\ ranked_results[i + 1].source = RESULT_SOURCE_WEB

\* generate_response has been called and the pipeline has moved on
Synthesized == synth.kind # "none" /\ pc \in {"raised", "done"}

\* C14: generate_response never raises: whatever the language-model call
\* does, a string comes back, and on an error of the call the static
\* 'encountered an error' string.
C14_SynthesisNeverRaises ==
    Synthesized
       => /\ raised = Absent
          /\ pc = "done" => response.returned
          /\ (pc = "done" /\ synth.kind = "error") => response.text = LOG_RESPONSE_ERROR

\* C15: when the language model answers the synthesis call with empty
\* content and no error, generate_response returns the static "couldn't
\* generate a response" string.
C15_EmptyContentFallback ==
    (Synthesized /\ pc = "done" /\ synth.kind = "content" /\ synth.content = "")
       => response.text = LOG_RESPONSE_FALLBACK

\* C17: for a finance, weather or transportation Understanding with
\* needs_web and an intent other than conversational, sources and priority
\* are both [domain_api, web_search, local_kb] and domain_handler is the
\* domain.
C17_DomainWithWebSelection ==
    (/\ pc = "selected"
     /\ understanding.domain \in {DOMAIN_FINANCE, DOMAIN_WEATHER, DOMAIN_TRANSPORTATION}
     /\ understanding.needs_web
     /\ understanding.intent # INTENT_CONVERSATIONAL)
       => /\ sources.sources = <<SOURCE_DOMAIN_API, SOURCE_WEB_SEARCH, SOURCE_LOCAL_KB>>
          /\ sources.priority = <<SOURCE_DOMAIN_API, SOURCE_WEB_SEARCH, SOURCE_LOCAL_KB>>
          /\ sources.domain_handler = understanding.domain

C17_Witness ==
    /\ pc = "selected"
    /\ understanding.domain = DOMAIN_WEATHER
    /\ understanding.needs_web
    /\ understanding.intent = INTENT_FACTUAL
    /\ sources.domain_handler = DOMAIN_WEATHER
    /\ Len(sources.priority) = 3

\* the cities get_weather_data asks for, in request order
RequestedCities ==
    extract_cities_from_locations(Get(args.entities, ENTITY_KEY_LOCATIONS, JList(<<>>))).value

\* C16: the weather payload has one entry per requested city, in request
\* order; the entry of a city whose upstream call failed is an error entry
\* and the entry of every other city is its result.
C16_PerCityIsolation ==
    FnReturned("get_weather_data")
       => /\ raised = Absent
          /\ ~HasError(results.domain_api_results)
          /\ Len(results.domain_api_results.entries) = Len(RequestedCities)
          /\ \A i \in 1..Len(RequestedCities) :
                /\ results.domain_api_results.entries[i].name = RequestedCities[i]
                /\ (results.domain_api_results.entries[i].error = Absent) <=> (args.up[i] = "ok")

C16_Witness ==
    /\ FnReturned("get_weather_data")
    /\ Len(RequestedCities) = 3
    /\ args.up[1] = "ok" /\ args.up[2] = "exc" /\ args.up[3] = "ok"
    /\ results.domain_api_results.entries[1].error = Absent
    /\ results.domain_api_results.entries[2].error # Absent
    /\ results.domain_api_results.entries[3].error = Absent

Classified(r) == requests[r].pc = "selection"

C19_FailedLoadCached ==
    [][loader.failed >= 1 => loader'.probes = loader.probes]_vars

\* C19 amended: without usable files the KB gives no results; only a load
\* that worked is cached.  A request that finds the cache uninitialized
\* probes the files, also after earlier loads have failed, and a request
\* that finds it initialized takes the handles without probing.
C19_OnlySuccessCached ==
    /\ [](/\ cache => disk = "ok"
          /\ \A r \in RequestIds :
                requests[r].pc = "kb_return"
                   => /\ requests[r].loaded <=> cache
                      /\ disk # "ok" => ~requests[r].loaded
          /\ loader.failed <= loader.probes)
    /\ [][\A r \in RequestIds :
             (requests[r].pc = "kb_check" /\ requests'[r].pc # "kb_check")
                => loader'.probes = loader.probes + (IF cache THEN 0 ELSE 1)]_vars

C19_Witness ==
    /\ \A r \in RequestIds : requests[r].pc = "done"
    /\ disk = "absent"
    /\ loader.failed >= 2
    /\ loader.probes = loader.failed

\* C20: requests share nothing but the retriever handles, which are written
\* once at most: the summary a request prints holds its own recordings and
\* no others.
C20_RequestsIsolated ==
    /\ loader.writes <= 1
    /\ \A r \in RequestIds :
          requests[r].pc = "done" => requests[r].seen = requests[r].own

\* C21: for an Understanding with domain general and needs_web, whatever the
\* intent, web_search is the first element of the final priority.
C21_WebSearchFirst ==
    (/\ pc = "selected"
     /\ understanding.domain = DOMAIN_GENERAL
     /\ understanding.needs_web)
       => sources.priority[1] = SOURCE_WEB_SEARCH

\* C21 as the code has it: with domain general and needs_web the sources are
\* [web_search, local_kb]; web_search is the first element of priority when
\* the intent is not conversational, and the second, behind local_kb, when
\* it is.
C21_WebSearchFirstUnlessConversational ==
    (/\ pc = "selected"
     /\ understanding.domain = DOMAIN_GENERAL
     /\ understanding.needs_web)
       => /\ sources.sources = <<SOURCE_WEB_SEARCH, SOURCE_LOCAL_KB>>
          /\ sources.priority = IF understanding.intent = INTENT_CONVERSATIONAL
                                THEN <<SOURCE_LOCAL_KB, SOURCE_WEB_SEARCH>>
                                ELSE <<SOURCE_WEB_SEARCH, SOURCE_LOCAL_KB>>

C21_Witness ==
    /\ pc = "selected"
    /\ understanding.domain = DOMAIN_GENERAL
    /\ understanding.needs_web
    /\ understanding.intent = INTENT_CONVERSATIONAL
    /\ sources.priority[2] = SOURCE_WEB_SEARCH

\* C22: local_kb is among the sources of every Understanding; it is the
\* first element of priority exactly when the intent is conversational or
\* the domain is general without needs_web, and the last element otherwise.
C22_LocalKBPosition ==
    pc = "selected"
       => /\ InSeq(SOURCE_LOCAL_KB, sources.sources)
          /\ sources.priority[1] = SOURCE_LOCAL_KB
                <=> (\/ understanding.intent = INTENT_CONVERSATIONAL
                     \/ (understanding.domain = DOMAIN_GENERAL /\ ~understanding.needs_web))
          /\ sources.priority[1] # SOURCE_LOCAL_KB
                => sources.priority[Len(sources.priority)] = SOURCE_LOCAL_KB

C22_Witness ==
    /\ pc = "selected"
    /\ understanding.intent = INTENT_CONVERSATIONAL
    /\ understanding.domain = DOMAIN_FINANCE
    /\ understanding.needs_web
    /\ sources.priority = <<SOURCE_LOCAL_KB, SOURCE_DOMAIN_API, SOURCE_WEB_SEARCH>>

\* apply_bm25_reranking caught a failure: before the loop, or in it at the
\* first item whose score is not a number
BlendFailed(raw, all_results) ==
    \/ raw = BM25Raised
    \/ \E i \in 1..Len(all_results) : all_results[i].score = NoneScore

WebItems(context) == SelectSeq(context, IsWeb)

HasDomainItem(context) ==
    \E i \in 1..Len(context) : context[i].source = RESULT_SOURCE_DOMAIN_API

\* C24: the context block of a ranked list with a domain_api item is the
\* payload of that item under the primary header, then the first web items
\* of the list, three at most, in ranked order, each cut to 200 characters;
\* of a list without one it is the first min(5, n) items, numbered from 1
\* in ranked order, each with its source.
C24_ContextBlock ==
    FnReturned("build_context_summary")
       => IF HasDomainItem(args.context)
          THEN /\ context_summary.kind = "primary"
               /\ \E i \in 1..Len(args.context) :
                     /\ args.context[i].source = RESULT_SOURCE_DOMAIN_API
                     /\ context_summary.primary = args.context[i].content.payload
               /\ Len(context_summary.lines)
                     = Min(Len(WebItems(args.context)), DEFAULT_MAX_SUPPORTING_WEB)
               /\ \A i \in 1..Len(context_summary.lines) :
                     /\ context_summary.lines[i].index = i
                     /\ context_summary.lines[i].content = WebItems(args.context)[i].content
                     /\ context_summary.lines[i].chars <= CONTENT_PREVIEW_LENGTH_MEDIUM
                     /\ context_summary.lines[i].chars
                           = Min(Len(WebItems(args.context)[i].content.text),
                                 CONTENT_PREVIEW_LENGTH_MEDIUM)
          ELSE /\ context_summary.kind = IF args.context = <<>> THEN "none" ELSE "top"
               /\ Len(context_summary.lines)
                     = Min(Len(args.context), DEFAULT_MAX_CONTEXT_RESULTS)
               /\ \A i \in 1..Len(context_summary.lines) :
                     context_summary.lines[i]
                        = Line(i, args.context[i].source, args.context[i].content, Whole)

C24_Witness ==
    /\ FnReturned("build_context_summary")
    /\ HasDomainItem(args.context)
    /\ Len(WebItems(args.context)) = 4
    /\ Len(context_summary.lines) = 3
    /\ context_summary.lines[2].chars = CONTENT_PREVIEW_LENGTH_MEDIUM
    /\ Len(context_summary.lines[2].content.text) > CONTENT_PREVIEW_LENGTH_MEDIUM

\* C30: when the domain API bucket is not empty, an error payload included,
\* the ranked list has it as a domain_api item whose score before blending
\* is 0.9, and the context block is that payload followed by web items
\* only: no local_kb item, the direct answer of the model among them, is in
\* the block.
C30_DomainPayloadOnly ==
    (pc \in {"ranked", "context"} /\ ~results.domain_api_results.empty)
       => /\ \E i \in 1..Len(ranked_results) :
                /\ ranked_results[i].source = RESULT_SOURCE_DOMAIN_API
                /\ ranked_results[i].content = Dict(results.domain_api_results)
                /\ ranked_results[i].score
                      = IF ranked_results[i].bm25_score = NoBM25 THEN DEFAULT_SCORE_DOMAIN_API
                        ELSE (BM25_WEIGHT_ORIGINAL * DEFAULT_SCORE_DOMAIN_API
                              + BM25_WEIGHT_BM25 * ranked_results[i].bm25_score) \div 10
          /\ pc = "context"
                => /\ context_summary.kind = "primary"
                   /\ context_summary.primary = results.domain_api_results
                   /\ \A i \in 1..Len(context_summary.lines) :
                         /\ context_summary.lines[i].source = RESULT_SOURCE_WEB
                         /\ \A k \in 1..Len(results.local_kb_results) :
                               context_summary.lines[i].content
                                  # results.local_kb_results[k].content

C30_Witness ==
    /\ pc = "context"
    /\ HasError(results.domain_api_results)
    /\ \E k \in 1..Len(results.local_kb_results) : IsDirectAnswer(results.local_kb_results[k])
    /\ Len(results.local_kb_results) = 2
    /\ Len(context_summary.lines) = 1

\* the Understanding has been returned and the pipeline is in its try block
AfterClassification ==
    pc \in {"classified", "understood", "selected", "retrieved", "ranked", "context"} \/ InRetrieval

\* the query has been stored in the Understanding
AfterStoreQuery == AfterClassification /\ pc # "classified"

\* the SourceSelection has been returned
AfterSelection == AfterStoreQuery /\ pc # "understood"

\* C25: once query_understanding and source_selection have returned, no
\* later step of the query changes a field of the Understanding or of the
\* SourceSelection.
C25_ImmutableOnceBuilt ==
    [][/\ (AfterClassification /\ AfterClassification') => understanding' = understanding
       /\ (AfterSelection /\ AfterSelection') => sources' = sources]_vars

\* C25 as the code has it: the pipeline adds the query to the Understanding
\* right after query_understanding returned it, and changes no other field
\* of it; from then on no step changes the Understanding, and none changes
\* the SourceSelection once source_selection returned it.
C25_ImmutableOnceQueryStored ==
    [][/\ (pc = "classified" /\ AfterClassification')
             => /\ understanding.query = Absent
                /\ understanding' = [understanding EXCEPT !.query = query]
       /\ (AfterStoreQuery /\ AfterStoreQuery') => understanding' = understanding
       /\ (AfterSelection /\ AfterSelection') => sources' = sources]_vars

C25_Witness ==
    /\ pc = "context"
    /\ understanding.query = query
    /\ understanding.domain = DOMAIN_FINANCE
    /\ sources.domain_handler = DOMAIN_FINANCE
    /\ calls.domain = 1

\* the stage of run_search_pipeline a timed operation belongs to
StageOf ==
    [op \in Operations |->
        IF op = "query_understanding" THEN 1
        ELSE IF op = "source_selection" THEN 2
        ELSE IF op = "rerank_results" THEN 4
        ELSE IF op = "generate_response" THEN 5
        ELSE 3]

\* C26: the stages run in the order classification, source selection,
\* retrieval, reranking, synthesis: when an operation of a stage returns,
\* no exception has been raised before, it has not run before in this
\* query, every earlier stage has run and no later stage has.
C26_StagesInOrder ==
    [][\A op \in Operations :
          monitor'[op] > monitor[op]
             => /\ raised = Absent
                /\ monitor[op] = 0
                /\ \A later \in Operations :
                      StageOf[later] > StageOf[op] => monitor[later] = 0
                /\ \A stage \in 1..(StageOf[op] - 1) :
                      \E earlier \in Operations :
                         StageOf[earlier] = stage /\ monitor[earlier] = 1]_vars

C26_Witness ==
    /\ pc = "done"
    /\ raised # Absent
    /\ monitor["call_domain_api"] = 1
    /\ monitor["rerank_results"] = 0
    /\ monitor["generate_response"] = 0

\* the reply of the language model passed the validation of its intent and
\* domain
ValidReply ==
    /\ reply.kind = "content"
    /\ Parses(reply.content)
    /\ reply.content.body.shape = "obj"
    /\ reply.content.body.intent \in VALID_INTENTS
    /\ reply.content.body.domain \in VALID_DOMAINS

\* a JSON value as a list: a list is itself, another value the list of it
\* (of nothing for null)
AsList(j) == IF j.t = "list" THEN j ELSE JList(j.v)

\* C27: for a reply with valid intent and domain whose entities value is
\* not a map, the entities of the Understanding have the six keys, general
\* holding that value as a list and the other five an empty list; for one
\* whose entities value is a map, every key of the six that the map lacks
\* holds an empty list.
C27_NonMapCoerced ==
    (pc \in {"classified", "understood"} /\ ValidReply)
       => /\ reply.content.body.entities.kind = "nonmap"
                => /\ DOMAIN understanding.entities = SixKeys
                   /\ understanding.entities[ENTITY_KEY_GENERAL]
                         = AsList(reply.content.body.entities.j)
                   /\ \A key \in SixKeys \ {ENTITY_KEY_GENERAL} :
                         understanding.entities[key] = JList(<<>>)
          /\ reply.content.body.entities.kind = "map"
                => \A key \in SixKeys :
                      /\ key \in DOMAIN understanding.entities
                      /\ key \notin DOMAIN reply.content.body.entities.m
                            => understanding.entities[key] = JList(<<>>)

\* the Understanding has the values of the default one
IsDefaultUnderstanding ==
    /\ understanding.intent = INTENT_FACTUAL
    /\ understanding.domain = DOMAIN_GENERAL
    /\ understanding.needs_web
    /\ understanding.entities = create_empty_entities

\* C28: when classification falls back, the Understanding is the default
\* one, and with it the query goes on with sources and priority
\* [web_search, local_kb] and no domain handler: no domain API is called,
\* no fallback web search is made and the model is not asked for a direct
\* answer.
C28_DefaultRunsWebAndKB ==
    /\ (pc \in {"classified", "understood"} /\ classify_with_llm(reply).none)
          => IsDefaultUnderstanding
    /\ (AfterSelection /\ IsDefaultUnderstanding)
          => /\ sources.sources = <<SOURCE_WEB_SEARCH, SOURCE_LOCAL_KB>>
             /\ sources.priority = <<SOURCE_WEB_SEARCH, SOURCE_LOCAL_KB>>
             /\ sources.domain_handler = Absent
             /\ calls.domain = 0
             /\ calls.fallback = 0
             /\ calls.direct = 0
             /\ results.domain_api_results = EmptyDict
             /\ raised = Absent

C28_Witness ==
    /\ pc = "context"
    /\ IsDefaultUnderstanding
    /\ calls.kb = 1
    /\ calls.web = 1
    /\ monitor["get_hkgai_answer"] = 0
    /\ monitor["call_domain_api"] = 0

\* C29: the SourceSelection retrieve_information works with has local_kb
\* among its sources, so its local KB list is assigned when the direct
\* answer step reads it and when it is stored in the bucket: that step is
\* never reached with the list unassigned, and never raises.
C29_LocalKBAlwaysAssigned ==
    /\ InRetrieval => Selected(SOURCE_LOCAL_KB)
    /\ pc = "direct" => kbAssigned
    /\ (InRetrieval /\ pc \notin {"kb", "direct"})
          => /\ kbAssigned
             /\ results.local_kb_results = kb_results
    /\ raised # "cannot access local variable 'kb_results'"

C29_Witness ==
    /\ pc = "summary"
    /\ kbAssigned
    /\ Len(results.local_kb_results) = 2
    /\ IsDirectAnswer(results.local_kb_results[1])
    /\ calls.kb = 1

====
